---- MODULE Spec2Model ----
(***************************************************************************)
(* Verification model of the RabbitMQ messaging layer:                     *)
(*   - MessageSerializerService (envelope codec),                          *)
(*   - RabbitMQCoreService (sendToQueue / consume / consumeWithManualAck), *)
(*   - DeadLetterQueueService (setupDeadLetterQueue / consumeWithRetry).   *)
(* The broker is modelled by the AMQP behaviour the code relies on: a      *)
(* FIFO queue, basic.ack / basic.nack / basic.reject, dead-lettering of    *)
(* messages rejected without requeue on a queue that has dead-letter       *)
(* arguments, and a channel error on a second acknowledgment of the same   *)
(* delivery tag.                                                           *)
(***************************************************************************)
EXTENDS Integers, Sequences, FiniteSets, TLC

VARIABLES
  qargs,      \* the protected queue at the broker: "absent" | "plain" | "dl"
  queue,      \* messages waiting in the protected queue (head is next)
  dlq,        \* messages in the paired dead-letter queue dlq.<queue>
  unacked,    \* deliveries the consumer holds without any acknowledgment
  consumer,   \* the consumer registered on the protected queue
  channelOpen,\* FALSE once the broker closed the channel on a protocol error
  nextId,     \* uuidv4(): the next fresh id
  sends,      \* messages published to the protected queue so far
  now,        \* Date.now()
  deliveries, \* number of deliveries made so far
  last,       \* what the consume callback did with the last delivery
  codec       \* input and output of one codec call (codec specification)

VARIABLES
  started,           \* onModuleInit of the connection service has run
  broker,            \* what the broker answers now: "up" | "degraded" | "down"
  connection,        \* this.connection: "null" | "open" | "failing" | "dead"
  connListeners,     \* the held connection has the 'close'/'error' listeners
  channel,           \* this.channel: "null" | "open" | "orphan" | "closed"
  isConnected,       \* this.isConnected
  reconnectAttempts, \* this.reconnectAttempts
  timers,            \* delays of the pending setTimeout(connect) timers
  leaked,            \* open connections no field refers to any more
  lastOp             \* the last connection operation or event, and its record

VARIABLES
  initialized,      \* RabbitMQInitService.initialized
  startupTimer,     \* the 3 s timer of onModuleInit: "unset"|"pending"|"fired"
  runs,             \* the calls of initializeQueues() made so far
  exchanges,        \* exchanges the broker holds: [name, decl]
  queues,           \* queues the broker holds: [name, decl]
  bindings,         \* bindings the broker holds: <<queue, exchange, key>>
  initChannel,      \* the channel the declarations go through
  consumersStarted  \* business.startAllConsumers() has been called

VARIABLES
  pattern,     \* the last call of a pattern service and what it did
  pqueue,      \* messages the broker holds in the priority queue
  pqDeclared   \* the broker holds the priority queue

VARIABLES
  fanoutBroker,    \* exchanges, queues, bindings and channel of the fan-out
                   \* service
  fanoutContents,  \* the messages each queue of the fan-out service holds
  fanoutCall       \* the last call of the fan-out service and what it did

VARIABLES
  dlBroker,    \* exchanges, queues, bindings and channel of the dead-letter
               \* set-up
  dlCall,      \* the last call of setupDeadLetterQueue and what it did
  dlMessages,  \* the messages the queues of the dead-letter set-up hold
  dlConsumer,  \* consumeDeadLetterQueue has registered its consumer
  dlLast       \* the last delivery to the dead-letter handler, and what
               \* has become of the messages so far

VARIABLES
  prefetchCount,  \* the prefetch count connect() has set on the channel
  workDeclared,   \* the broker holds the work queue
  workQueue,      \* tasks waiting in the work queue (head is next)
  workers,        \* the consumers on the work queue, in the order they
                  \* registered: id, the tasks held unacknowledged, and
                  \* the number of tasks received
  workStats       \* tasks sent, deliveries made, calls of
                  \* startMultipleWorkers, and the consumer the broker's
                  \* round robin turns to next

VARIABLES
  isRunning,   \* BusinessConsumer.isRunning
  bizChannel,  \* the channel the business consumers subscribe on: "open",
               \* or "lost" with the connection it belonged to
  starting,    \* queues whose channel.consume() awaits the broker's reply
  subscribed,  \* queues with a consumer on the current channel
  orphaned,    \* queues that lost their consumer with a channel and have
               \* none on the current one
  bizLast      \* the last step of the business consumers

VARIABLES
  topicBroker,    \* exchanges and bindings of the topic service, and the
                  \* state of its channel
  topicContents,  \* the routing keys of the logs each queue has received
  topicCall       \* the last call of the topic service and what it did

VARIABLES
  channelConsumers  \* the consumers registered on the shared channel, in
                    \* order: queue, the method that registered it, the
                    \* prefetch it asked for (0: none) and the limit the
                    \* broker applies to it

VARIABLES
  plugin,      \* the broker has the delayed-message exchange plugin
  dbroker,     \* exchanges, queues, bindings and channel of the delay service
  heldBack,    \* messages the broker holds back: in a delayed exchange or
               \* in a queue with a message TTL
  arrived,     \* messages that have reached a queue without TTL
  delayCall    \* the last call of the delay service and what it did

queueVars == <<qargs, queue, dlq, unacked, consumer, channelOpen,
               nextId, sends, now, deliveries, last, codec>>

connVars == <<started, broker, connection, connListeners, channel,
              isConnected, reconnectAttempts, timers, leaked, lastOp>>

initVars == <<initialized, startupTimer, runs, exchanges, queues, bindings,
              initChannel, consumersStarted>>

fanoutVars == <<fanoutBroker, fanoutContents, fanoutCall>>

dlqVars == <<dlMessages, dlConsumer, dlLast>>

dlVars == <<dlBroker, dlCall, dlqVars>>

\* The pattern services: the priority queue, the fan-out exchange, the
\* dead-letter set-up and the work queue.
workVars == <<prefetchCount, workDeclared, workQueue, workers, workStats>>

businessVars == <<isRunning, bizChannel, starting, subscribed, orphaned,
                  bizLast>>

topicVars == <<topicBroker, topicContents, topicCall>>

\* The business consumers, the consumers on the shared channel and the
\* topic service.
serviceVars == <<businessVars, channelConsumers, topicVars>>

patternVars == <<pattern, pqueue, pqDeclared, fanoutVars, dlVars, workVars,
                 serviceVars>>

delayVars == <<plugin, dbroker, heldBack, arrived, delayCall>>

vars == <<queueVars, connVars, initVars, patternVars, delayVars>>

\* What an action of the queue and codec specifications leaves alone.
notQueueVars == <<connVars, initVars, patternVars, delayVars>>

\* What an action of the connection specification leaves alone.
notConnVars == <<queueVars, initVars, patternVars, delayVars>>

\* What an action of the initialisation specification leaves alone.
notInitVars == <<queueVars, connVars, patternVars, delayVars>>

\* op: what ran last; raised: it threw to its caller; closes: the close()
\* calls it made, in order; everOk: some connect() has succeeded so far;
\* everLost: an established connection has closed under the service.
NoOp == [op |-> "none", raised |-> FALSE, closes |-> <<>>, everOk |-> FALSE,
         everLost |-> FALSE]

\* The fields of RabbitMQConnectionService after construction.
ConnFields ==
  /\ started = FALSE
  /\ connection = "null" /\ connListeners = FALSE /\ channel = "null"
  /\ isConnected = FALSE /\ reconnectAttempts = 0
  /\ timers = <<>> /\ leaked = 0 /\ lastOp = NoOp

\* The fields of RabbitMQInitService after construction, and an empty
\* broker.
InitFields ==
  /\ initialized = FALSE /\ startupTimer = "unset" /\ runs = <<>>
  /\ exchanges = {} /\ queues = {} /\ bindings = {}
  /\ initChannel = "open" /\ consumersStarted = FALSE

\* n: pattern-service calls made so far; calls: the broker calls of the
\* last one.
NoCall == [n |-> 0, op |-> "none", priority |-> 0, threw |-> FALSE,
           error |-> "none", calls |-> <<>>]

\* A broker that holds nothing, seen through an open channel.
EmptyBroker ==
  [exchanges |-> {}, queues |-> {}, bindings |-> {}, channel |-> "open"]

\* The queues the fan-out specification declares.
FanoutQueueNames == {"audit", "email", "sms"}

\* n: fan-out calls made so far; bound: the queues whose bindQueueToFanout
\* has returned; setUp: setupFanoutExchange has returned; the other fields
\* describe the last call.
NoFanoutCall ==
  [n |-> 0, op |-> "none", ready |-> TRUE, threw |-> FALSE, queue |-> "",
   setUp |-> FALSE, bound |-> {}, id |-> 0]

\* The fan-out service not yet called, on an empty broker.
FanoutIdle ==
  /\ fanoutBroker = EmptyBroker
  /\ fanoutContents = [q \in FanoutQueueNames |-> <<>>]
  /\ fanoutCall = NoFanoutCall

\* n: calls of setupDeadLetterQueue made so far; calls: the declarations
\* the last one made, in order.
NoDlCall ==
  [n |-> 0, op |-> "none", threw |-> FALSE, error |-> "none",
   queue |-> <<>>,
   options |-> [deadLetterExchange |-> <<>>, deadLetterRoutingKey |-> <<>>,
                messageTtl |-> 0],
   calls |-> <<>>]

\* deadLettered: ids of the messages that have entered a dead-letter queue;
\* taken: ids the dead-letter consumer has acknowledged; failed: ids whose
\* dead-letter handler threw; the other fields describe the last delivery.
NoDlDelivery ==
  [id |-> 0, appThrew |-> FALSE, threw |-> FALSE, escalated |-> FALSE,
   acks |-> <<>>, fate |-> "none",
   deadLettered |-> {}, taken |-> {}, failed |-> {}]

\* setupDeadLetterQueue not yet called, on an empty broker.
DlIdle ==
  /\ dlBroker = EmptyBroker /\ dlCall = NoDlCall
  /\ dlMessages = {} /\ dlConsumer = FALSE /\ dlLast = NoDlDelivery

\* this.configService.get("RABBITMQ_PREFETCH_COUNT", 10)
DefaultPrefetchCount == 10

\* channel: the channel the workers consume on, "open" | "closed".
NoWorkStats ==
  [sent |-> 0, deliveries |-> 0, starts |-> 0, turn |-> 1,
   channel |-> "open"]

\* No worker started, and no work queue at the broker.
WorkFields ==
  /\ workDeclared = FALSE /\ workQueue = <<>> /\ workers = <<>>
  /\ workStats = NoWorkStats

NoTopicCall == [n |-> 0, op |-> "none", ready |-> TRUE, threw |-> FALSE,
                level |-> "", service |-> "", key |-> <<>>, queues |-> {}]

\* The topic service not yet called, on an empty broker.
TopicIdle ==
  /\ topicBroker = [channel |-> "open", exchanges |-> {}, bindings |-> {}]
  /\ topicContents = {}
  /\ topicCall = NoTopicCall

NoBizStep == [op |-> "none", skipped |-> FALSE, raised |-> FALSE]

\* The fields of BusinessConsumer after construction, on a channel without
\* consumers.
BusinessIdle ==
  /\ isRunning = FALSE /\ bizChannel = "open"
  /\ starting = {} /\ subscribed = {} /\ orphaned = {}
  /\ bizLast = NoBizStep

\* No pattern service called yet, and no priority queue at the broker.
PatternIdle ==
  /\ pattern = NoCall /\ pqueue = <<>> /\ pqDeclared = FALSE
  /\ FanoutIdle
  /\ DlIdle
  /\ WorkFields
  /\ BusinessIdle
  /\ channelConsumers = <<>>
  /\ TopicIdle

\* The pattern services at rest on a channel with the default prefetch.
PatternFields == PatternIdle /\ prefetchCount = DefaultPrefetchCount

\* n: delay-service calls made so far; the other fields describe the last.
NoDelayCall ==
  [n |-> 0, op |-> "none", ready |-> TRUE, threw |-> FALSE,
   error |-> "none", returned |-> TRUE, mode |-> "none", queue |-> "",
   delay |-> 0, at |-> 0, pubs |-> <<>>]

\* The delay service not yet called, on an empty broker.
DelayIdle ==
  /\ dbroker = EmptyBroker /\ heldBack = {} /\ arrived = {}
  /\ delayCall = NoDelayCall

\* The other components at rest, for the queue and codec specifications.
NotQueueInit ==
  /\ ConnFields /\ broker = "up" /\ InitFields /\ PatternFields
  /\ DelayIdle /\ plugin = FALSE

-----------------------------------------------------------------------------
(* Bounds of the model.                                                    *)

MaxQueue == 2        \* messages waiting in the protected queue
MaxSends == 2        \* messages producers publish to the protected queue
MaxTime == 2         \* clock values
MaxDeliveries == 5   \* deliveries to the consumer
MaxUnacked == 1      \* deliveries held without acknowledgment
MaxHandlerCalls == 2 \* ack-handle calls one manual handler run makes
MaxRetryIn == 4      \* retryCount of the codec specification's inputs

-----------------------------------------------------------------------------
(* JSON values.  Every value is a record of the same shape: t is the JS    *)
(* type, n the number / string number / boolean (0,1) / array length, m    *)
(* the members of an object as a set of <<key, number>> pairs.             *)
(* Strings are numbered: 0 is the empty string, k > 0 the k-th uuid this   *)
(* process generated, k < 0 a string that came from elsewhere.             *)

JUndef == [t |-> "undef", n |-> 0, m |-> {}]
JNull == [t |-> "null", n |-> 0, m |-> {}]
JNum(k) == [t |-> "num", n |-> k, m |-> {}]
JStr(k) == [t |-> "str", n |-> k, m |-> {}]
JBool(b) == [t |-> "bool", n |-> IF b THEN 1 ELSE 0, m |-> {}]
JArr(k) == [t |-> "arr", n |-> k, m |-> {}]
JObj(pairs) == [t |-> "obj", n |-> 0, m |-> pairs]

\* JavaScript truthiness, as used by the `!x` and `x || 0` tests.
Truthy(v) ==
  CASE v.t = "undef" -> FALSE
    [] v.t = "null" -> FALSE
    [] v.t = "num" -> v.n # 0
    [] v.t = "str" -> v.n # 0
    [] v.t = "bool" -> v.n = 1
    [] OTHER -> TRUE

\* Property read o.k of a JS object: undefined when the key is absent.
Get(o, k) == IF k \in DOMAIN o THEN o[k] ELSE JUndef

\* `x || 0` on a numeric field.
OrZero(v) == IF Truthy(v) THEN v.n ELSE 0

EmptyObj == [k \in {} |-> JUndef]

\* JSON.stringify: keys whose value is undefined are left out of the text.
Stringify(o) ==
  [kind |-> "json",
   obj |-> [k \in {x \in DOMAIN o : o[x].t # "undef"} |-> o[k]]]

\* A buffer that is not JSON text.
Garbage == [kind |-> "bytes", obj |-> EmptyObj]

\* JSON.parse: throws on text that is not JSON.
Parse(frame) == [ok |-> frame.kind = "json", obj |-> frame.obj]

-----------------------------------------------------------------------------
(* MessageSerializerService                                                *)

\* The result of a call that threw.
Thrown == [ok |-> FALSE, msg |-> EmptyObj]

NoOptions == [delay |-> JUndef, priority |-> JUndef, headers |-> JUndef]

\* serialize(data, options): a fresh id, the current time, retryCount 0.
Serialize(data, options, id, ts) ==
  Stringify([id |-> JStr(id),
             data |-> data,
             timestamp |-> JNum(ts),
             retryCount |-> JNum(0),
             delay |-> options.delay,
             priority |-> options.priority,
             headers |-> options.headers])

\* deserialize(buffer): every failure is re-thrown as a decode error.
Deserialize(frame) ==
  LET p == Parse(frame) IN
  IF ~p.ok THEN Thrown
  ELSE IF \/ ~Truthy(Get(p.obj, "id"))
          \/ ~Truthy(Get(p.obj, "data"))
          \/ ~Truthy(Get(p.obj, "timestamp"))
       THEN Thrown
       ELSE [ok |-> TRUE, msg |-> p.obj]

Pow2(k) == 2 ^ k

\* createRetryMessage with `>=` in place of `>`.
CreateRetryMessageOffByOne(original, maxRetries, id, ts) ==
  LET retryCount == OrZero(Get(original, "retryCount")) + 1 IN
  IF retryCount >= maxRetries THEN Thrown
  ELSE [ok |-> TRUE,
        msg |-> [k \in DOMAIN original \cup
                       {"id", "timestamp", "retryCount", "delay"} |->
                 CASE k = "id" -> JStr(id)
                   [] k = "timestamp" -> JNum(ts)
                   [] k = "retryCount" -> JNum(retryCount)
                   [] k = "delay" -> JNum(Pow2(retryCount) * 1000)
                   [] OTHER -> original[k]]]

\* createRetryMessage(originalMessage, maxRetries)
CreateRetryMessage(original, maxRetries, id, ts) ==
  LET retryCount == OrZero(Get(original, "retryCount")) + 1 IN
  IF retryCount > maxRetries THEN Thrown
  ELSE [ok |-> TRUE,
        msg |-> [k \in DOMAIN original \cup
                       {"id", "timestamp", "retryCount", "delay"} |->
                 CASE k = "id" -> JStr(id)
                   [] k = "timestamp" -> JNum(ts)
                   [] k = "retryCount" -> JNum(retryCount)
                   [] k = "delay" -> JNum(Pow2(retryCount) * 1000)
                   [] OTHER -> original[k]]]

-----------------------------------------------------------------------------
(* Inputs.                                                                 *)

\* Application payloads: objects, arrays, strings, numbers, booleans, null.
Payloads ==
  {JObj({<<"task", 1>>}), JObj({}), JArr(0), JArr(2), JStr(-1), JStr(0),
   JNum(7), JNum(0), JBool(TRUE), JBool(FALSE), JNull}

HeaderChoices == {JUndef, JObj({<<"trace", 1>>})}

OptionChoices ==
  [delay : {JUndef, JNum(1000)}, priority : {JUndef, JNum(5)},
   headers : HeaderChoices]

\* Frames a consumer may be handed: JSON objects in which each of id, data,
\* timestamp is absent, falsy or proper, with or without an unknown extra
\* field, and a buffer that is not JSON.
FrameChoices ==
  {Stringify([id |-> i, data |-> d, timestamp |-> t, extra |-> e]) :
     i \in {JUndef, JStr(0), JStr(1), JStr(-1)},
     d \in {JUndef} \cup Payloads,
     t \in {JUndef, JNum(0), JNum(1)},
     e \in {JUndef, JNum(1)}}
  \cup {Garbage}

\* Envelopes as deserialize returns them, with an absent or a set retryCount.
OriginalChoices ==
  {Stringify([id |-> JStr(1), data |-> JObj({<<"task", 1>>}),
              timestamp |-> JNum(1), retryCount |-> r, headers |-> h]).obj :
     r \in {JUndef} \cup {JNum(k) : k \in 0..MaxRetryIn},
     h \in HeaderChoices}

-----------------------------------------------------------------------------
(* The codec specification: one call of serialize-then-deserialize, of     *)
(* deserialize, or of createRetryMessage, on inputs drawn by Init.         *)

CodecIdle ==
  [op |-> "idle", data |-> JUndef, options |-> NoOptions, frame |-> Garbage,
   original |-> EmptyObj, maxRetries |-> 0, out |-> Thrown]

CodecInputs ==
  {[CodecIdle EXCEPT !.op = "serialize", !.data = d, !.options = o] :
     d \in Payloads, o \in OptionChoices}
  \cup {[CodecIdle EXCEPT !.op = "deserialize", !.frame = f] :
          f \in FrameChoices}
  \cup {[CodecIdle EXCEPT !.op = "createRetry", !.original = m,
                          !.maxRetries = x] :
          m \in OriginalChoices, x \in 0..MaxRetryIn}

NoDelivery ==
  [kind |-> "none", noAck |-> FALSE, maxRetries |-> 0, decoded |-> FALSE,
   rc |-> 0, appThrew |-> FALSE, threw |-> FALSE, acks |-> <<>>,
   fate |-> "none", msg |-> <<>>, sent |-> <<>>, at |-> 0,
   sendResult |-> "none"]

NoConsumer == [kind |-> "none", noAck |-> FALSE, maxRetries |-> 0]

InitCodec ==
  /\ qargs = "absent" /\ queue = <<>> /\ dlq = <<>> /\ unacked = <<>>
  /\ consumer = NoConsumer /\ channelOpen = TRUE
  /\ nextId = 2 /\ sends = 0 /\ now \in 1..MaxTime /\ deliveries = 0
  /\ last = NoDelivery
  /\ codec \in CodecInputs
  /\ NotQueueInit

brokerVars == <<qargs, queue, dlq, unacked, consumer, channelOpen,
                sends, deliveries, last>>

\* deserialize(serialize(data, options))
CodecRoundTrip ==
  /\ codec.op = "serialize"
  /\ LET f == Serialize(codec.data, codec.options, nextId, now) IN
       codec' = [codec EXCEPT !.op = "roundTripDone", !.frame = f,
                              !.out = Deserialize(f)]
  /\ nextId' = nextId + 1
  /\ UNCHANGED <<brokerVars, now, notQueueVars>>

\* deserialize(frame)
CodecDeserialize ==
  /\ codec.op = "deserialize"
  /\ codec' = [codec EXCEPT !.op = "deserializeDone",
                            !.out = Deserialize(codec.frame)]
  /\ UNCHANGED <<brokerVars, nextId, now, notQueueVars>>

\* createRetryMessage(original, maxRetries)
CodecCreateRetry ==
  /\ codec.op = "createRetry"
  /\ LET r == CreateRetryMessage(codec.original, codec.maxRetries,
                                 nextId, now) IN
       /\ codec' = [codec EXCEPT !.op = "createRetryDone", !.out = r]
       /\ nextId' = IF r.ok THEN nextId + 1 ELSE nextId
  /\ UNCHANGED <<brokerVars, now, notQueueVars>>

NextCodec == CodecRoundTrip \/ CodecDeserialize \/ CodecCreateRetry

SpecCodec == InitCodec /\ [][NextCodec]_vars

-----------------------------------------------------------------------------
(* RabbitMQCoreService and DeadLetterQueueService against the broker.      *)

DefaultMaxRetries == 3

\* maxRetries arguments a caller of consumeWithRetry passes.
RetryChoices == {0, 1, DefaultMaxRetries}

\* Payloads and headers the producers of the protected queue send.
SentPayloads == {JObj({<<"task", 1>>}), JNum(0)}

Ack == [op |-> "ack", requeue |-> FALSE]
Nack(requeue) == [op |-> "nack", requeue |-> requeue]
Reject(requeue) == [op |-> "reject", requeue |-> requeue]

\* What a manual handler may call on its ack handle.
AckActions == {Ack, Nack(TRUE), Nack(FALSE), Reject(TRUE), Reject(FALSE)}

RECURSIVE SeqsUpTo(_, _)
SeqsUpTo(S, n) ==
  IF n = 0 THEN {<<>>}
  ELSE LET shorter == SeqsUpTo(S, n - 1) IN
       shorter \cup {Append(q, x) : q \in shorter, x \in S}

\* A message at the broker: the frame, the AMQP headers property, and the
\* history of the logical task it belongs to (origin: id of the task's first
\* envelope; attempt: handler runs the task has had; prevRc: the retryCount
\* the handler saw in the latest of them; via: how this copy was enqueued).
BrokerMessage(frame, headers, origin, attempt, prevRc, via) ==
  [content |-> frame, headers |-> headers,
   origin |-> origin, attempt |-> attempt, prevRc |-> prevRc, via |-> via]

\* sendToQueue(queue, data, options): the frame handed to channel.sendToQueue
\* with options.headers as the AMQP headers and options.priority as the
\* AMQP priority.
SendToQueue(data, options, id, ts) ==
  [content |-> Serialize(data, options, id, ts), headers |-> options.headers,
   priority |-> options.priority]

\* consumeWithRetry re-sending the retry copy under the timestamp of the
\* envelope that failed instead of the time of the re-send.
ConsumeWithRetryHandlerKeepsTimestamp(message, appThrew, maxRetries, id, ts, sendResult) ==
  IF ~appThrew THEN [threw |-> FALSE, sent |-> <<>>, result |-> "none"]
  ELSE
    LET retryCount == OrZero(Get(message, "retryCount")) IN
    IF retryCount < maxRetries
    THEN LET r == CreateRetryMessage(message, maxRetries, id, ts) IN
         IF ~r.ok THEN [threw |-> TRUE, sent |-> <<>>, result |-> "none"]
         ELSE IF sendResult = "throws"
         THEN [threw |-> TRUE, sent |-> <<>>, result |-> sendResult]
         ELSE [threw |-> FALSE, result |-> sendResult,
               sent |-> <<SendToQueue(
                   r.msg["data"],
                   [delay |-> r.msg["delay"], priority |-> JUndef,
                    headers |-> JObj({<<"x-retry-count", r.msg["retryCount"].n>>,
                                      <<"x-original-message-id",
                                        Get(message, "id").n>>})],
                   id + 1, Get(message, "timestamp").n)>>]
    ELSE [threw |-> TRUE, sent |-> <<>>, result |-> "none"]

\* What channel.sendToQueue does with the retry copy: it returns true, it
\* returns false (the write buffer is full; the frame is buffered all the
\* same), or the channel is gone and sendToQueue throws.
SendResults == {"true", "false", "throws"}

\* The handler consumeWithRetry wraps around the application handler:
\* what it re-sends, what sendToQueue answered (its boolean is not looked
\* at) and whether the wrapper throws.
ConsumeWithRetryHandler(message, appThrew, maxRetries, id, ts, sendResult) ==
  IF ~appThrew THEN [threw |-> FALSE, sent |-> <<>>, result |-> "none"]
  ELSE
    LET retryCount == OrZero(Get(message, "retryCount")) IN
    IF retryCount < maxRetries
    THEN LET r == CreateRetryMessage(message, maxRetries, id, ts) IN
         IF ~r.ok THEN [threw |-> TRUE, sent |-> <<>>, result |-> "none"]
         ELSE IF sendResult = "throws"
         THEN [threw |-> TRUE, sent |-> <<>>, result |-> sendResult]
         ELSE [threw |-> FALSE, result |-> sendResult,
               sent |-> <<SendToQueue(
                   r.msg["data"],
                   [delay |-> r.msg["delay"], priority |-> JUndef,
                    headers |-> JObj({<<"x-retry-count", r.msg["retryCount"].n>>,
                                      <<"x-original-message-id",
                                        Get(message, "id").n>>})],
                   id + 1, ts)>>]
    ELSE [threw |-> TRUE, sent |-> <<>>, result |-> "none"]

\* consume with an ack in a finally block instead of the try block.
ConsumeAcksFinally(decoded, handlerThrew, noAck) ==
  IF noAck THEN <<>>
  ELSE IF decoded /\ ~handlerThrew THEN <<Ack>>
  ELSE <<Nack(TRUE), Ack>>

\* The acknowledgments the callback of consume issues for one delivery.
ConsumeAcks(decoded, handlerThrew, noAck) ==
  IF noAck THEN <<>>
  ELSE IF decoded /\ ~handlerThrew THEN <<Ack>>
  ELSE <<Nack(TRUE)>>

\* The acknowledgments issued for one delivery under consumeWithManualAck:
\* the handler's own calls, then the callback's nack if anything threw.
ManualAcks(decoded, calls, handlerThrew) ==
  IF ~decoded THEN <<Nack(TRUE)>>
  ELSE calls \o (IF handlerThrew THEN <<Nack(TRUE)>> ELSE <<>>)

\* What the broker does with a delivery, given the acknowledgments issued:
\* the first one settles it.
Fate(acks, noAck, args) ==
  IF noAck THEN "autoAcked"
  ELSE IF acks = <<>> THEN "held"
  ELSE IF acks[1].op = "ack" THEN "acked"
  ELSE IF acks[1].requeue THEN "requeued"
  ELSE IF args = "dl" THEN "deadLettered"
  ELSE "discarded"

Init ==
  /\ qargs = "absent" /\ queue = <<>> /\ dlq = <<>> /\ unacked = <<>>
  /\ consumer = NoConsumer /\ channelOpen = TRUE
  /\ nextId = 1 /\ sends = 0 /\ now = 1 /\ deliveries = 0
  /\ last = NoDelivery
  /\ codec = CodecIdle
  /\ NotQueueInit

\* The broker closes the channel on a protocol error: the consumer is gone
\* and what it held is requeued.
ChannelClosed ==
  /\ channelOpen' = FALSE
  /\ consumer' = NoConsumer
  /\ queue' = unacked \o queue
  /\ unacked' = <<>>

\* assertQueue(queue) without dead-letter arguments.
AssertQueue ==
  /\ channelOpen
  /\ IF qargs = "dl"
     THEN ChannelClosed /\ UNCHANGED qargs
     ELSE qargs' = "plain"
          /\ UNCHANGED <<queue, unacked, consumer, channelOpen>>
  /\ UNCHANGED <<dlq, nextId, sends, now, deliveries, last, codec,
                 notQueueVars>>

\* setupDeadLetterQueue(queue): dlx.<queue>, dlq.<queue>, their binding,
\* and the queue itself declared with the dead-letter arguments.
SetupDeadLetterQueue ==
  /\ channelOpen
  /\ IF qargs = "plain"
     THEN ChannelClosed /\ UNCHANGED qargs
     ELSE qargs' = "dl"
          /\ UNCHANGED <<queue, unacked, consumer, channelOpen>>
  /\ UNCHANGED <<dlq, nextId, sends, now, deliveries, last, codec,
                 notQueueVars>>

\* A producer: sendToQueue(queue, data, {headers}).
Send ==
  /\ channelOpen
  /\ sends < MaxSends
  /\ Len(queue) < MaxQueue
  /\ \E data \in SentPayloads, h \in HeaderChoices :
       LET m == SendToQueue(data, [NoOptions EXCEPT !.headers = h],
                            nextId, now)
       IN queue' = IF qargs = "absent" THEN queue
                   ELSE Append(queue,
                               BrokerMessage(m.content, m.headers, nextId,
                                             0, 0, "send"))
  /\ nextId' = nextId + 1
  /\ sends' = sends + 1
  /\ UNCHANGED <<qargs, dlq, unacked, consumer, channelOpen, now,
                 deliveries, last, codec,
                 notQueueVars>>

\* Another client of the broker publishes bytes that are no envelope.
ForeignPublish ==
  /\ qargs # "absent"
  /\ sends < MaxSends
  /\ Len(queue) < MaxQueue
  /\ queue' = Append(queue, BrokerMessage(Garbage, JUndef, 0, 0, 0, "foreign"))
  /\ sends' = sends + 1
  /\ UNCHANGED <<qargs, dlq, unacked, consumer, channelOpen, nextId, now,
                 deliveries, last, codec,
                 notQueueVars>>

\* channel.consume(queue, callback): registering a consumer on a queue that
\* does not exist is a channel error.
Register(c) ==
  IF qargs = "absent"
  THEN ChannelClosed
  ELSE consumer' = c /\ UNCHANGED <<queue, unacked, channelOpen>>

\* consume(queue, handler, {noAck})
Consume ==
  /\ channelOpen
  /\ consumer.kind = "none"
  /\ \E noAck \in BOOLEAN :
       Register([kind |-> "auto", noAck |-> noAck, maxRetries |-> 0])
  /\ UNCHANGED <<qargs, dlq, nextId, sends, now, deliveries, last, codec,
                 notQueueVars>>

\* consumeWithRetry(queue, handler, maxRetries)
ConsumeWithRetry ==
  /\ channelOpen
  /\ consumer.kind = "none"
  /\ \E mr \in RetryChoices :
       Register([kind |-> "retry", noAck |-> FALSE, maxRetries |-> mr])
  /\ UNCHANGED <<qargs, dlq, nextId, sends, now, deliveries, last, codec,
                 notQueueVars>>

\* consumeWithManualAck(queue, handler)
ConsumeWithManualAck ==
  /\ channelOpen
  /\ consumer.kind = "none"
  /\ Register([kind |-> "manual", noAck |-> FALSE, maxRetries |-> 0])
  /\ UNCHANGED <<qargs, dlq, nextId, sends, now, deliveries, last, codec,
                 notQueueVars>>

\* The clock advances.
Tick ==
  /\ now < MaxTime
  /\ now' = now + 1
  /\ UNCHANGED <<qargs, queue, dlq, unacked, consumer, channelOpen, nextId,
                 sends, deliveries, last, codec,
                 notQueueVars>>

\* One delivery: the broker hands the head of the queue to the consumer's
\* callback, which decodes it, runs the handler and acknowledges; the broker
\* then settles the delivery.
Deliver ==
  /\ channelOpen
  /\ consumer.kind # "none"
  /\ queue # <<>>
  /\ Len(unacked) < MaxUnacked
  /\ deliveries < MaxDeliveries
  /\ LET msg == Head(queue)
         d == Deserialize(msg.content)
         rc == OrZero(Get(d.msg, "retryCount"))
     IN
     \E appThrew \in BOOLEAN, calls \in SeqsUpTo(AckActions, MaxHandlerCalls),
        sendResult \in SendResults :
       /\ (~d.ok => ~appThrew)
       /\ (~d.ok \/ consumer.kind # "manual" => calls = <<>>)
       /\ LET h == IF ~d.ok
                   THEN [threw |-> FALSE, sent |-> <<>>, result |-> "none"]
                   ELSE IF consumer.kind = "retry"
                   THEN ConsumeWithRetryHandler(d.msg, appThrew,
                                                consumer.maxRetries,
                                                nextId, now, sendResult)
                   ELSE [threw |-> appThrew, sent |-> <<>>,
                         result |-> "none"]
              acks == IF consumer.kind = "manual"
                      THEN ManualAcks(d.ok, calls, h.threw)
                      ELSE ConsumeAcks(d.ok, h.threw, consumer.noAck)
              fate == Fate(acks, consumer.noAck, qargs)
              attempt == IF d.ok THEN msg.attempt + 1 ELSE msg.attempt
              seen == [msg EXCEPT !.attempt = attempt,
                                  !.prevRc = IF d.ok THEN rc ELSE @]
              sent == [i \in 1..Len(h.sent) |->
                         BrokerMessage(h.sent[i].content, h.sent[i].headers,
                                       msg.origin, attempt, rc, "resend")]
              back == IF fate = "requeued"
                      THEN <<[seen EXCEPT !.via = "requeue"]>> ELSE <<>>
              held == IF fate = "held" THEN <<seen>> ELSE <<>>
          IN
          /\ (h.result = "none" => sendResult = "true")
          /\ last' = [kind |-> consumer.kind, noAck |-> consumer.noAck,
                      maxRetries |-> consumer.maxRetries, decoded |-> d.ok,
                      rc |-> rc, appThrew |-> appThrew, threw |-> h.threw,
                      acks |-> acks, fate |-> fate, msg |-> msg,
                      sent |-> sent, at |-> now, sendResult |-> h.result]
          /\ dlq' = IF fate = "deadLettered" THEN Append(dlq, seen) ELSE dlq
          /\ nextId' = nextId + 2 * Len(h.sent)
          /\ IF Len(acks) > 1 \/ h.result = "throws"
             THEN /\ channelOpen' = FALSE
                  /\ consumer' = NoConsumer
                  /\ queue' = unacked \o back \o Tail(queue) \o sent
                  /\ unacked' = <<>>
             ELSE /\ queue' = back \o Tail(queue) \o sent
                  /\ unacked' = unacked \o held
                  /\ UNCHANGED <<consumer, channelOpen>>
  /\ deliveries' = deliveries + 1
  /\ UNCHANGED <<qargs, sends, now, codec, notQueueVars>>

\* The broker, the producers and the clock.
Environment ==
  \/ AssertQueue
  \/ SetupDeadLetterQueue
  \/ Send
  \/ ForeignPublish
  \/ Tick
  \/ Deliver

Next ==
  \/ Environment
  \/ Consume
  \/ ConsumeWithRetry
  \/ ConsumeWithManualAck

Spec == Init /\ [][Next]_vars

\* The protected queue with each kind of consumer on its own.
SpecAuto == Init /\ [][Environment \/ Consume]_vars
SpecRetry == Init /\ [][Environment \/ ConsumeWithRetry]_vars
SpecManual == Init /\ [][Environment \/ ConsumeWithManualAck]_vars

-----------------------------------------------------------------------------
(* Claims about the retry consumer (SpecRetry).                            *)

\* C1: under consumeWithRetry the retryCount the handler sees grows by
\* exactly 1 on each successive attempt of a task and never decreases: a
\* re-sent copy is seen with the previous attempt's count plus one.
C1_RetryCountIncreases ==
  (last.kind = "retry" /\ last.decoded /\ last.msg.attempt > 0) =>
    /\ last.rc >= last.msg.prevRc
    /\ last.msg.via = "resend" => last.rc = last.msg.prevRc + 1

\* C2: with setupDeadLetterQueue done and consumeWithRetry(maxRetries = 3),
\* a message whose handler always throws is redelivered 3 times with
\* retryCount 1, 2, 3 and is then in dlq.<queue> and no longer in the
\* protected queue: no copy waiting in the protected queue belongs to a task
\* that has already failed 4 times (the first delivery and 3 redeliveries),
\* and a message in the dead-letter queue has failed exactly 4 times.
C2_ThreeRetriesThenDeadLetter ==
  (consumer.kind = "retry" /\ consumer.maxRetries = DefaultMaxRetries
     /\ qargs = "dl") =>
    /\ \A i \in 1..Len(queue) : queue[i].attempt <= DefaultMaxRetries
    /\ \A i \in 1..Len(dlq) : dlq[i].attempt = DefaultMaxRetries + 1

\* C3: when the handler fails on an envelope whose retryCount has reached
\* maxRetries, the message is negatively acknowledged without requeue and
\* is not returned to the protected queue.
C3_ExhaustedIsNotRequeued ==
  (last.kind = "retry" /\ last.decoded /\ last.appThrew
     /\ last.rc >= last.maxRetries) =>
    /\ last.threw
    /\ Len(last.acks) = 1
    /\ last.acks[1].op # "ack" /\ ~last.acks[1].requeue
    /\ last.fate # "requeued"

\* C10: the envelope consumeWithRetry re-sends carries the original payload
\* and every header of the original envelope unchanged, and adds a header
\* that links to the original message id.
C10_RetryCarriesHeaders ==
  (last.kind = "retry" /\ last.sent # <<>>) =>
    LET orig == last.msg.content.obj
        copy == last.sent[1].content.obj
    IN /\ Get(copy, "data") = Get(orig, "data")
       /\ Get(orig, "headers").m \subseteq Get(copy, "headers").m
       /\ <<"x-original-message-id", Get(orig, "id").n>>
            \in Get(copy, "headers").m

\* C11 as stated: the timestamp of a task's envelope is set once, at first
\* send: the retry envelope carries the timestamp of the envelope that failed.
C11_TimestampSetOnce ==
  (last.kind = "retry" /\ last.sent # <<>>) =>
    Get(last.sent[1].content.obj, "timestamp")
      = Get(last.msg.content.obj, "timestamp")

\* C11 amended: a retry envelope is stamped anew when it is re-sent: its
\* timestamp is the time of the re-send, never earlier than the timestamp
\* of the envelope whose handling failed.
C11_TimestampOfResend ==
  (last.kind = "retry" /\ last.sent # <<>>) =>
    /\ Get(last.sent[1].content.obj, "timestamp") = JNum(last.at)
    /\ Get(last.msg.content.obj, "timestamp").n <= last.at

\* C11 witness: a retry copy re-sent later than the first send.
C11_Witness ==
  /\ last.kind = "retry" /\ last.sent # <<>>
  /\ Get(last.msg.content.obj, "timestamp").n < last.at

-----------------------------------------------------------------------------
(* Claims about consumeWithManualAck (SpecManual).                         *)

\* C4: under consumeWithManualAck a delivery receives exactly one of ack /
\* nack / reject; a handler exception gives an implicit nack with requeue;
\* no delivery that is acknowledged receives a second acknowledgment.
C4_ExactlyOneAck ==
  (last.kind = "manual" /\ last.acks # <<>>) =>
    /\ Len(last.acks) = 1
    /\ last.threw => last.acks = <<Nack(TRUE)>>

-----------------------------------------------------------------------------
(* Claims about consume (SpecAuto).                                        *)

\* C5: under consume with noAck = false every delivery receives exactly one
\* acknowledgment: ack when the handler returned, nack with requeue = true
\* when it failed.
C5_AutoAckExactlyOne ==
  (last.kind = "auto" /\ ~last.noAck) =>
    /\ Len(last.acks) = 1
    /\ (last.decoded /\ ~last.threw) => last.acks = <<Ack>>
    /\ last.threw => last.acks = <<Nack(TRUE)>>

\* C5 witness: a message that had already been requeued once is delivered
\* again, its handler fails again, and it is nacked with requeue once.
C5_Witness ==
  /\ last.kind = "auto" /\ ~last.noAck
  /\ last.decoded /\ last.threw
  /\ last.acks = <<Nack(TRUE)>>
  /\ last.msg.attempt > 0

\* C6: a delivered frame that fails to decode is never requeued for
\* redelivery: it is acknowledged and dropped, or dead-lettered.
C6_MalformedNotRequeued ==
  (last.kind = "auto" /\ ~last.decoded /\ last.msg.content.kind = "bytes") =>
    last.fate \in {"acked", "autoAcked", "deadLettered"}

-----------------------------------------------------------------------------
(* Codec claims.                                                           *)

\* C7: round trip: for every JSON-serializable payload P,
\* deserialize(serialize(P)) succeeds, its data equals P, its id is
\* non-empty and its timestamp non-zero.
C7_RoundTrip ==
  codec.op = "roundTripDone" =>
    /\ codec.out.ok
    /\ Get(codec.out.msg, "data") = codec.data
    /\ Get(codec.out.msg, "id").n # 0
    /\ Get(codec.out.msg, "timestamp").n # 0

\* A field is present when the frame carries its key; an id is present when
\* it is a non-empty string, a timestamp when it is a non-zero number.
Present(frame) ==
  /\ frame.kind = "json"
  /\ "data" \in DOMAIN frame.obj
  /\ "id" \in DOMAIN frame.obj /\ frame.obj["id"].n # 0
  /\ "timestamp" \in DOMAIN frame.obj /\ frame.obj["timestamp"].n # 0

\* C8: deserialize fails when id, data or timestamp is absent from the
\* frame, and accepts a frame in which all three are present, whatever
\* extra fields it carries.
C8_DeserializeValidates ==
  codec.op = "deserializeDone" =>
    /\ codec.out.ok <=> Present(codec.frame)
    /\ codec.out.ok => codec.out.msg = codec.frame.obj

\* C9: createRetryMessage fails exactly when retryCount + 1 > maxRetries;
\* otherwise the result has retryCount + 1 (an absent count is 0), a fresh
\* id different from the original's, and a delay of 2^retryCount seconds
\* (in milliseconds).
C9_CreateRetryMessage ==
  codec.op = "createRetryDone" =>
    LET orig == codec.original
        old == IF "retryCount" \in DOMAIN orig THEN orig["retryCount"].n
               ELSE 0
        res == codec.out.msg
    IN /\ codec.out.ok <=> ~(old + 1 > codec.maxRetries)
       /\ codec.out.ok =>
            /\ res["retryCount"] = JNum(old + 1)
            /\ res["id"] # orig["id"]
            /\ res["id"] = JStr(nextId - 1)
            /\ res["delay"] = JNum(Pow2(old + 1) * 1000)
            /\ res["data"] = orig["data"]

\* C9 witness: a retry envelope was produced from an original that had
\* already been retried.
C9_Witness ==
  /\ codec.op = "createRetryDone"
  /\ codec.out.ok
  /\ Get(codec.original, "retryCount") = JNum(2)

-----------------------------------------------------------------------------
(* RabbitMQConnectionService: connect / disconnect / getChannel, the       *)
(* connection's event listeners and the reconnect timer.  The client       *)
(* library emits 'close' after every 'error' of a connection, closes the   *)
(* channels of a connection that closes, and throws from close() on a      *)
(* channel or connection that is already closed.                           *)

maxReconnectAttempts == 10
reconnectDelay == 5000

MaxLeaked == 1

BrokerStates == {"up", "degraded", "down"}

\* How the awaits of connect() end: amqp.connect() is refused by a broker
\* that is down; a degraded broker accepts the connection and then fails
\* createChannel() or prefetch().
ConnectOutcomes(b) ==
  CASE b = "up" -> {"ok"}
    [] b = "degraded" -> {"noChannel", "noPrefetch"}
    [] OTHER -> {"refused"}

Without(s, i) == SubSeq(s, 1, i - 1) \o SubSeq(s, i + 1, Len(s))

\* handleReconnect() with a delay that does not grow with the attempt
HandleReconnectFixedDelay(attempts, pending) ==
  IF attempts >= maxReconnectAttempts
  THEN [attempts |-> attempts, timers |-> pending]
  ELSE [attempts |-> attempts + 1, timers |-> Append(pending, reconnectDelay)]

\* handleReconnect() without the limit on the attempts
HandleReconnectUnlimited(attempts, pending) ==
  [attempts |-> attempts + 1,
   timers |-> Append(pending, reconnectDelay * (attempts + 1))]

\* handleReconnect() that counts the attempt and sets no timer
HandleReconnectNoTimer(attempts, pending) ==
  IF attempts >= maxReconnectAttempts
  THEN [attempts |-> attempts, timers |-> pending]
  ELSE [attempts |-> attempts + 1, timers |-> pending]

\* handleReconnect()
HandleReconnect(attempts, pending) ==
  IF attempts >= maxReconnectAttempts
  THEN [attempts |-> attempts, timers |-> pending]
  ELSE [attempts |-> attempts + 1,
        timers |-> Append(pending, reconnectDelay * (attempts + 1))]

\* connect(), with the timers that are pending when it runs
Connect(outcome, pending) ==
  LET opened == outcome # "refused"
      r == HandleReconnect(reconnectAttempts, pending) IN
  /\ connection' = IF opened THEN "open" ELSE connection
  /\ connListeners' = IF opened THEN outcome = "ok" ELSE connListeners
  /\ leaked' = IF opened /\ connection = "open" /\ leaked < MaxLeaked
               THEN leaked + 1 ELSE leaked
  /\ channel' = IF outcome \in {"ok", "noPrefetch"} THEN "open"
                ELSE IF opened /\ connection = "open" /\ channel = "open"
                THEN "orphan" ELSE channel
  /\ isConnected' = IF outcome = "ok" THEN TRUE ELSE isConnected
  /\ reconnectAttempts' = IF outcome = "ok" THEN 0 ELSE r.attempts
  /\ timers' = IF outcome = "ok" THEN pending ELSE r.timers
  /\ lastOp' = [op |-> IF outcome = "ok" THEN "connected" ELSE "connectFailed",
                raised |-> FALSE, closes |-> <<>>,
                everOk |-> lastOp.everOk \/ outcome = "ok",
                everLost |-> lastOp.everLost]

\* onModuleInit()
OnModuleInit ==
  /\ ~started
  /\ started' = TRUE
  /\ \E outcome \in ConnectOutcomes(broker) : Connect(outcome, timers)
  /\ UNCHANGED <<broker, notConnVars>>

\* A reconnect timer set by handleReconnect() fires and calls connect().
ReconnectTimer ==
  /\ \E i \in 1..Len(timers) :
       \E outcome \in ConnectOutcomes(broker) :
         Connect(outcome, Without(timers, i))
  /\ UNCHANGED <<started, broker, notConnVars>>

\* connection.on('error')
ConnectionError ==
  /\ connection = "open" /\ connListeners
  /\ connection' = "failing"
  /\ isConnected' = FALSE
  /\ lastOp' = [lastOp EXCEPT !.op = "error", !.raised = FALSE,
                              !.closes = <<>>]
  /\ UNCHANGED <<started, broker, connListeners, channel, reconnectAttempts,
                 timers, leaked, notConnVars>>

\* The held connection closes (after an error, or closed by the broker);
\* connection.on('close') runs if the listeners are attached.
ConnectionClose ==
  /\ connection \in {"open", "failing"}
  /\ connection' = "dead"
  /\ channel' = IF channel = "open" THEN "closed" ELSE channel
  /\ LET r == HandleReconnect(reconnectAttempts, timers) IN
       IF connListeners
       THEN /\ isConnected' = FALSE
            /\ reconnectAttempts' = r.attempts
            /\ timers' = r.timers
       ELSE UNCHANGED <<isConnected, reconnectAttempts, timers>>
  /\ lastOp' = [lastOp EXCEPT !.op = "close", !.raised = FALSE,
                              !.closes = <<>>,
                              !.everLost = @ \/ connListeners]
  /\ UNCHANGED <<started, broker, connListeners, leaked, notConnVars>>

\* The broker closes the channel on a channel-level error;
\* channel.on('error') and channel.on('close') only log.
ChannelError ==
  /\ channel \in {"open", "orphan"}
  /\ channel' = "closed"
  /\ lastOp' = [lastOp EXCEPT !.op = "channelError", !.raised = FALSE,
                              !.closes = <<>>]
  /\ UNCHANGED <<started, broker, connection, connListeners, isConnected,
                 reconnectAttempts, timers, leaked, notConnVars>>

\* The broker becomes reachable, degraded or unreachable.
BrokerChange ==
  /\ broker' \in BrokerStates \ {broker}
  /\ UNCHANGED <<started, connection, connListeners, channel, isConnected,
                 reconnectAttempts, timers, leaked, lastOp, notConnVars>>

\* disconnect() without its catch: a close() that throws reaches the caller
DisconnectStepsNoCatch(ch, conn) ==
  LET chCalled == ch # "null"
      chThrew == ch = "closed"
      connCalled == ~chThrew /\ conn # "null"
      connThrew == connCalled /\ conn \in {"failing", "dead"} IN
  [channel |-> IF chThrew THEN ch ELSE "null",
   connection |-> IF connCalled /\ ~connThrew THEN "null" ELSE conn,
   closedConnection |-> connCalled /\ ~connThrew,
   completed |-> ~chThrew /\ ~connThrew,
   raised |-> chThrew \/ connThrew,
   closes |-> (IF chCalled THEN <<"channel">> ELSE <<>>)
                \o (IF connCalled THEN <<"connection">> ELSE <<>>)]

\* disconnect(): the close() calls of its try block and the fields they
\* leave; a close() on what is already closed throws into the catch, which
\* only logs.
DisconnectSteps(ch, conn) ==
  LET chCalled == ch # "null"
      chThrew == ch = "closed"
      connCalled == ~chThrew /\ conn # "null"
      connThrew == connCalled /\ conn \in {"failing", "dead"} IN
  [channel |-> IF chThrew THEN ch ELSE "null",
   connection |-> IF connCalled /\ ~connThrew THEN "null" ELSE conn,
   closedConnection |-> connCalled /\ ~connThrew,
   completed |-> ~chThrew /\ ~connThrew,
   raised |-> FALSE,
   closes |-> (IF chCalled THEN <<"channel">> ELSE <<>>)
                \o (IF connCalled THEN <<"connection">> ELSE <<>>)]

\* onModuleDestroy() -> disconnect().  Closing the connection emits its
\* 'close' event, so the 'close' listener runs inside connection.close().
Disconnect ==
  LET d == DisconnectSteps(channel, connection)
      listenerRuns == d.closedConnection /\ connListeners
      r == HandleReconnect(reconnectAttempts, timers) IN
  /\ channel' = d.channel
  /\ connection' = d.connection
  /\ connListeners' = IF d.closedConnection THEN FALSE ELSE connListeners
  /\ isConnected' = IF d.completed THEN FALSE ELSE isConnected
  /\ reconnectAttempts' = IF listenerRuns THEN r.attempts
                          ELSE reconnectAttempts
  /\ timers' = IF listenerRuns THEN r.timers ELSE timers
  /\ lastOp' = [lastOp EXCEPT !.op = "disconnect", !.raised = d.raised,
                              !.closes = d.closes]
  /\ UNCHANGED <<started, broker, leaked, notConnVars>>

NotReady == "notReady"

\* getChannel()
GetChannel ==
  IF channel = "null" \/ ~isConnected THEN NotReady ELSE channel

\* isConnectionReady()
IsConnectionReady ==
  isConnected /\ channel # "null" /\ connection # "null"

\* The queue and the codec at rest, for the connection specifications.
NotConnInit ==
  /\ qargs = "absent" /\ queue = <<>> /\ dlq = <<>> /\ unacked = <<>>
  /\ consumer = NoConsumer /\ channelOpen = TRUE
  /\ nextId = 1 /\ sends = 0 /\ now = 1 /\ deliveries = 0
  /\ last = NoDelivery
  /\ codec = CodecIdle
  /\ InitFields /\ PatternFields
  /\ DelayIdle /\ plugin = FALSE

InitConn == ConnFields /\ broker \in BrokerStates /\ NotConnInit

ConnService ==
  \/ OnModuleInit
  \/ ReconnectTimer
  \/ ConnectionError
  \/ ConnectionClose
  \/ ChannelError
  \/ Disconnect

NextConn == ConnService \/ BrokerChange

SpecConn == InitConn /\ [][NextConn]_vars

\* A broker that, once reachable, stays reachable.
BrokerRecovers ==
  /\ broker # "up"
  /\ broker' = "up"
  /\ UNCHANGED <<started, connection, connListeners, channel, isConnected,
                 reconnectAttempts, timers, leaked, lastOp, notConnVars>>

NextConnLive == ConnService \/ BrokerRecovers

\* The event loop runs start-up and every timer that is due, and the client
\* library emits 'close' for a connection that has failed.
SpecConnLive ==
  /\ InitConn
  /\ [][NextConnLive]_vars
  /\ WF_vars(OnModuleInit)
  /\ WF_vars(ReconnectTimer)
  /\ WF_vars(ConnectionClose /\ connection = "failing")

\* No timer is pending while a connection with listeners is held open, so
\* connect() never replaces a connection whose listeners could still run.
ConnSanity ==
  /\ Len(timers) <= 1
  /\ (timers # <<>> /\ connection \in {"open", "failing"}) => ~connListeners

-----------------------------------------------------------------------------
(* Claims about the connection manager (SpecConn, SpecConnLive).           *)

\* C12: when the held connection closes under the service, directly or
\* after its 'error' event, one reconnect is scheduled; the 'error' event
\* itself schedules nothing, so a loss is counted once; and every time the
\* attempt counter grows it grows by exactly one and the timer set with it
\* has the delay reconnectDelay * n, n being the counter's new value.
C12_LinearBackoff ==
  [][ /\ (connection # "dead" /\ connection' = "dead" /\ connListeners) =>
           /\ reconnectAttempts' = reconnectAttempts + 1
           /\ timers' = Append(timers, reconnectDelay * reconnectAttempts')
      /\ (connection = "open" /\ connection' = "failing") =>
           /\ ~isConnected'
           /\ UNCHANGED <<reconnectAttempts, timers>>
      /\ (reconnectAttempts' > reconnectAttempts) =>
           /\ reconnectAttempts' = reconnectAttempts + 1
           /\ timers' # <<>>
           /\ timers'[Len(timers')] = reconnectDelay * reconnectAttempts'
    ]_vars

\* The third consecutive attempt after a loss is pending, 15000 ms out.
C12_Witness ==
  /\ lastOp.everLost /\ lastOp.op = "connectFailed"
  /\ reconnectAttempts = 3
  /\ timers = <<3 * reconnectDelay>>

\* Ten attempts have failed: the counter is at its limit and no timer is
\* pending.
Exhausted ==
  /\ reconnectAttempts = maxReconnectAttempts
  /\ timers = <<>>
  /\ ~isConnected

\* C13: reconnectAttempts is always within 0..maxReconnectAttempts, and
\* once ten consecutive attempts have failed no step of the service sets a
\* timer or makes it ready again, whatever the broker does.
C13_GivesUp ==
  /\ [](reconnectAttempts \in 0..maxReconnectAttempts)
  /\ [](Exhausted => ~IsConnectionReady)
  /\ [][Exhausted => Exhausted']_vars

\* The service has given up and stays down although the broker is reachable.
C13_Witness ==
  /\ Exhausted
  /\ broker = "up"
  /\ lastOp.op = "connectFailed"

\* An established connection has closed under the service.
Lost == connection = "dead" /\ connListeners

\* C14: with the broker reachable, after the active connection is closed
\* under the service the reconnect attempts stay within
\* maxReconnectAttempts and isConnectionReady() becomes true again.
C14_Reconnects ==
  /\ [](Lost => reconnectAttempts \in 1..maxReconnectAttempts)
  /\ (Lost ~> IsConnectionReady)

\* The service is ready again on a connection made after a loss.
C14_Witness ==
  /\ lastOp.everLost
  /\ lastOp.op = "connected"
  /\ IsConnectionReady

C16_DisconnectTolerant ==
  [][ Disconnect =>
        /\ ~lastOp'.raised
        /\ lastOp'.closes \in {<<>>, <<"channel">>, <<"connection">>,
                               <<"channel", "connection">>}
        /\ (channel = "null") => lastOp'.closes \in {<<>>, <<"connection">>}
        /\ (connection = "null") => lastOp'.closes \in {<<>>, <<"channel">>}
        /\ (channel = "null" /\ connection = "null") =>
             UNCHANGED <<channel, connection, isConnected>>
        /\ (IsConnectionReady /\ channel = "open" /\ connection = "open") =>
             /\ lastOp'.closes = <<"channel", "connection">>
             /\ channel' = "null" /\ connection' = "null"
             /\ ~isConnected'
    ]_vars

\* disconnect() ran on a service whose connection had already closed under
\* it: the channel's close() threw and nothing reached the caller.
C16_Witness ==
  /\ lastOp.op = "disconnect"
  /\ lastOp.closes = <<"channel">>
  /\ channel = "closed" /\ connection = "dead"

-----------------------------------------------------------------------------
(* RabbitMQInitService: initializeQueues / manualInit over the static      *)
(* table QUEUE_CONFIGS.  The broker accepts the re-declaration of an       *)
(* exchange or queue with the same properties, refuses one with different  *)
(* properties (406) or a binding of what does not exist (404), closing the *)
(* channel, and keeps one binding per (queue, exchange, routing key).      *)

\* A descriptor of the table; routingKey, queueOptions and exchangeOptions
\* are <<>> where the table gives none.
Config(q, e, t, key, qopts) ==
  [queue |-> q, exchange |-> e, exchangeType |-> t, routingKey |-> key,
   queueOptions |-> qopts, exchangeOptions |-> <<>>]

QUEUE_CONFIGS ==
  << Config("email-tasks", "work-exchange", "direct", <<"email">>, <<>>),
     Config("sms-tasks", "work-exchange", "direct", <<"sms">>, <<>>),
     Config("image-processing", "work-exchange", "direct", <<"image">>, <<>>),
     Config("events.user", "events-exchange", "topic", <<"user.*">>, <<>>),
     Config("events.order", "events-exchange", "topic", <<"order.*">>, <<>>),
     Config("events.payment", "events-exchange", "topic", <<"payment.*">>,
            <<>>),
     Config("events.all", "events-exchange", "topic", <<"#">>, <<>>),
     Config("logs.error", "logs-exchange", "topic", <<"*.error">>, <<>>),
     Config("logs.warning", "logs-exchange", "topic", <<"*.warning">>, <<>>),
     Config("logs.all", "logs-exchange", "topic", <<"#">>, <<>>),
     Config("notifications.web", "notifications-exchange", "fanout", <<>>,
            <<>>),
     Config("notifications.mobile", "notifications-exchange", "fanout", <<>>,
            <<>>),
     Config("notifications.email", "notifications-exchange", "fanout", <<>>,
            <<>>),
     Config("urgent-tasks", "priority-exchange", "direct", <<"urgent">>,
            <<[arguments |-> "x-max-priority=10"]>>) >>

\* config.routingKey || ''
RoutingKeyOf(config) ==
  IF config.routingKey = <<>> \/ config.routingKey[1] = ""
  THEN "" ELSE config.routingKey[1]

\* The options setupExchangeAndQueues passes to assertExchange.
ExchangeDeclaration(config) ==
  [type |-> config.exchangeType,
   durable |-> IF config.exchangeOptions = <<>> THEN TRUE
               ELSE config.exchangeOptions[1].durable,
   autoDelete |-> IF config.exchangeOptions = <<>> THEN FALSE
                  ELSE config.exchangeOptions[1].autoDelete]

\* The options setupExchangeAndQueues passes to assertQueue.
QueueDeclaration(config) ==
  [durable |-> TRUE, exclusive |-> FALSE, autoDelete |-> FALSE,
   arguments |-> IF config.queueOptions = <<>> THEN "undefined"
                 ELSE config.queueOptions[1].arguments]

RECURSIVE ExchangeOrder(_, _)
\* The keys of groupByExchange(), in the order Object.entries yields them.
ExchangeOrder(i, acc) ==
  IF i > Len(QUEUE_CONFIGS) THEN acc
  ELSE LET e == QUEUE_CONFIGS[i].exchange IN
       ExchangeOrder(i + 1, IF \E k \in 1..Len(acc) : acc[k] = e
                            THEN acc ELSE Append(acc, e))

\* groupByExchange()
GroupByExchange ==
  LET names == ExchangeOrder(1, <<>>) IN
  [k \in 1..Len(names) |->
     [exchange |-> names[k],
      configs |-> SelectSeq(QUEUE_CONFIGS,
                            LAMBDA c : c.exchange = names[k])]]

RECURSIVE QueueCallsBindTwice(_, _)
\* The loop binding every queue a second time, under its own name.
QueueCallsBindTwice(exchangeName, configs) ==
  IF configs = <<>> THEN <<>>
  ELSE LET config == Head(configs) IN
       << [op |-> "assertQueue", name |-> config.queue,
           exchange |-> exchangeName, decl |-> QueueDeclaration(config),
           key |-> ""],
          [op |-> "bindQueue", name |-> config.queue,
           exchange |-> exchangeName, decl |-> QueueDeclaration(config),
           key |-> RoutingKeyOf(config)],
          [op |-> "bindQueue", name |-> config.queue,
           exchange |-> exchangeName, decl |-> QueueDeclaration(config),
           key |-> config.queue] >>
       \o QueueCallsBindTwice(exchangeName, Tail(configs))

RECURSIVE QueueCalls(_, _)
\* The loop of setupExchangeAndQueues over the configs of one exchange.
QueueCalls(exchangeName, configs) ==
  IF configs = <<>> THEN <<>>
  ELSE LET config == Head(configs) IN
       << [op |-> "assertQueue", name |-> config.queue,
           exchange |-> exchangeName, decl |-> QueueDeclaration(config),
           key |-> ""],
          [op |-> "bindQueue", name |-> config.queue,
           exchange |-> exchangeName, decl |-> QueueDeclaration(config),
           key |-> RoutingKeyOf(config)] >>
       \o QueueCalls(exchangeName, Tail(configs))

\* setupExchangeAndQueues declaring the exchange after its queues
SetupExchangeAndQueuesExchangeLast(exchangeName, configs) ==
  QueueCalls(exchangeName, configs)
  \o << [op |-> "assertExchange", name |-> exchangeName,
         exchange |-> exchangeName, decl |-> ExchangeDeclaration(configs[1]),
         key |-> ""] >>

\* setupExchangeAndQueues(exchangeName, configs): the broker calls it
\* makes, in order.
SetupExchangeAndQueues(exchangeName, configs) ==
  << [op |-> "assertExchange", name |-> exchangeName,
      exchange |-> exchangeName, decl |-> ExchangeDeclaration(configs[1]),
      key |-> ""] >>
  \o QueueCalls(exchangeName, configs)

RECURSIVE GroupCalls(_)
\* The for loop of initializeQueues() over the groups from index k on.
GroupCalls(k) ==
  IF k > Len(GroupByExchange) THEN <<>>
  ELSE SetupExchangeAndQueues(GroupByExchange[k].exchange,
                              GroupByExchange[k].configs)
       \o GroupCalls(k + 1)

\* The broker calls of one complete run of initializeQueues().
InitCalls == GroupCalls(1)

MaxManualInit == 1

\* A call of initializeQueues(): who made it, how far it is, how many broker
\* calls it has made, what manualInit() returned, the error it threw.
NewRun(caller, skip) ==
  [caller |-> caller,
   state |-> IF skip THEN "skipped" ELSE "running",
   made |-> 0,
   result |-> IF skip /\ caller = "manual"
              THEN <<[success |-> TRUE, message |-> <<"ok">>,
                      queues |-> Len(QUEUE_CONFIGS)]>>
              ELSE <<>>,
   error |-> "none"]

\* The broker calls a run has made.
Calls(run) == SubSeq(InitCalls, 1, run.made)

\* The broker's answer to a declaration or binding.
BrokerError(call) ==
  IF initChannel = "closed" THEN "channelClosed"
  ELSE IF call.op = "assertExchange"
  THEN IF \A x \in exchanges : x.name = call.name => x.decl = call.decl
       THEN "none" ELSE "preconditionFailed"
  ELSE IF call.op = "assertQueue"
  THEN IF \A x \in queues : x.name = call.name => x.decl = call.decl
       THEN "none" ELSE "preconditionFailed"
  ELSE IF /\ \E x \in queues : x.name = call.name
          /\ \E x \in exchanges : x.name = call.exchange
       THEN "none" ELSE "notFound"

\* manualInit() reporting the size of the table whatever happened
ManualInitResultAlwaysCount(error) ==
  [success |-> error = "none",
   message |-> IF error = "none" THEN <<"ok">> ELSE <<"failed", error>>,
   queues |-> Len(QUEUE_CONFIGS)]

\* manualInit(): what it returns when initializeQueues() ends
ManualInitResult(error) ==
  IF error = "none"
  THEN [success |-> TRUE, message |-> <<"ok">>,
        queues |-> Len(QUEUE_CONFIGS)]
  ELSE [success |-> FALSE, message |-> <<"failed", error>>, queues |-> 0]

\* initializeQueues() is entered: the check of the initialized flag.
InitializeQueues(caller) ==
  /\ runs' = Append(runs, NewRun(caller, initialized))
  /\ consumersStarted' = (consumersStarted
                            \/ (initialized /\ caller = "startup"))
  /\ UNCHANGED <<initialized, exchanges, queues, bindings, initChannel>>

\* onModuleInit() sets the 3 s timer.
InitOnModuleInit ==
  /\ startupTimer = "unset"
  /\ startupTimer' = "pending"
  /\ UNCHANGED <<initialized, runs, exchanges, queues, bindings, initChannel,
                 consumersStarted, notInitVars>>

\* The timer fires: initializeQueues(), then startAllConsumers().
StartupTimer ==
  /\ startupTimer = "pending"
  /\ startupTimer' = "fired"
  /\ InitializeQueues("startup")
  /\ UNCHANGED notInitVars

\* manualInit() is called through the API.
ManualInit ==
  /\ Cardinality({r \in 1..Len(runs) : runs[r].caller = "manual"})
       < MaxManualInit
  /\ InitializeQueues("manual")
  /\ UNCHANGED <<startupTimer, notInitVars>>

\* The next await of a run: one broker call and what follows it up to the
\* next await, the end of initializeQueues() or its catch.
Declare ==
  \E r \in 1..Len(runs) :
    LET run == runs[r]
        call == InitCalls[run.made + 1]
        error == BrokerError(call)
        last_ == run.made + 1 = Len(InitCalls)
        ended == [run EXCEPT !.made = @ + 1,
                             !.state = IF error # "none" THEN "failed"
                                       ELSE IF last_ THEN "done"
                                       ELSE "running",
                             !.error = error,
                             !.result = IF run.caller = "manual"
                                           /\ (last_ \/ error # "none")
                                        THEN <<ManualInitResult(error)>>
                                        ELSE <<>>] IN
    /\ run.state = "running"
    /\ runs' = [runs EXCEPT ![r] = ended]
    /\ initChannel' = IF error = "none" THEN initChannel ELSE "closed"
    /\ exchanges' = IF error = "none" /\ call.op = "assertExchange"
                    THEN exchanges \cup {[name |-> call.name,
                                          decl |-> call.decl]}
                    ELSE exchanges
    /\ queues' = IF error = "none" /\ call.op = "assertQueue"
                 THEN queues \cup {[name |-> call.name, decl |-> call.decl]}
                 ELSE queues
    /\ bindings' = IF error = "none" /\ call.op = "bindQueue"
                   THEN bindings \cup {<<call.name, call.exchange, call.key>>}
                   ELSE bindings
    /\ initialized' = (initialized \/ (error = "none" /\ last_))
    /\ consumersStarted' = (consumersStarted
                              \/ (error = "none" /\ last_
                                    /\ run.caller = "startup"))
    /\ UNCHANGED <<startupTimer, notInitVars>>

\* A queue of the table that another client declares with other arguments.
ForeignQueue ==
  [name |-> "urgent-tasks",
   decl |-> [durable |-> TRUE, exclusive |-> FALSE, autoDelete |-> FALSE,
             arguments |-> "undefined"]]

\* Another client declares the queue before the service does.
ForeignDeclare ==
  /\ \A x \in queues : x.name # ForeignQueue.name
  /\ queues' = queues \cup {ForeignQueue}
  /\ UNCHANGED <<initialized, startupTimer, runs, exchanges, bindings,
                 initChannel, consumersStarted, notInitVars>>

\* An operator deletes the conflicting queue.
ForeignDelete ==
  /\ ForeignQueue \in queues
  /\ queues' = queues \ {ForeignQueue}
  /\ UNCHANGED <<initialized, startupTimer, runs, exchanges, bindings,
                 initChannel, consumersStarted, notInitVars>>

\* A reconnect of the connection service gives the service a new channel.
ChannelReplaced ==
  /\ initChannel = "closed"
  /\ initChannel' = "open"
  /\ UNCHANGED <<initialized, startupTimer, runs, exchanges, queues,
                 bindings, consumersStarted, notInitVars>>

\* The connection and the queue at rest, for the initialisation
\* specifications.
NotInitInit ==
  /\ qargs = "absent" /\ queue = <<>> /\ dlq = <<>> /\ unacked = <<>>
  /\ consumer = NoConsumer /\ channelOpen = TRUE
  /\ nextId = 1 /\ sends = 0 /\ now = 1 /\ deliveries = 0
  /\ last = NoDelivery
  /\ codec = CodecIdle
  /\ ConnFields /\ broker = "up"
  /\ PatternFields
  /\ DelayIdle /\ plugin = FALSE

InitInit == InitFields /\ NotInitInit

InitService ==
  \/ InitOnModuleInit
  \/ StartupTimer
  \/ ManualInit
  \/ Declare

\* The service alone on a broker nobody else declares on.
SpecInitQuiet == InitInit /\ [][InitService]_vars

NextInit ==
  \/ InitService
  \/ ForeignDeclare
  \/ ForeignDelete
  \/ ChannelReplaced

SpecInit == InitInit /\ [][NextInit]_vars

InitTypeOK ==
  /\ initialized \in BOOLEAN
  /\ \A r \in 1..Len(runs) : runs[r].made \in 0..Len(InitCalls)

-----------------------------------------------------------------------------
(* Claims about the topology initialisation (SpecInitQuiet, SpecInit).     *)

\* The bindings the table asks for, one per descriptor.
TableBindings ==
  {<<QUEUE_CONFIGS[i].queue, QUEUE_CONFIGS[i].exchange,
     IF QUEUE_CONFIGS[i].routingKey = <<>> THEN ""
     ELSE QUEUE_CONFIGS[i].routingKey[1]>> : i \in 1..Len(QUEUE_CONFIGS)}

\* C17: on a broker nobody else declares on, calls of initializeQueues()
\* made one after the other or overlapping (the start-up timer and
\* manualInit) never fail, never create a binding the table does not ask
\* for, and once a run has completed the broker holds exactly one binding
\* per descriptor of the table.
C17_Idempotent ==
  /\ \A r \in 1..Len(runs) :
       /\ runs[r].state # "failed"
       /\ runs[r].error = "none"
       /\ runs[r].result # <<>> => runs[r].result[1].success
  /\ bindings \subseteq TableBindings
  /\ (\E r \in 1..Len(runs) : runs[r].state = "done") =>
       /\ bindings = TableBindings
       /\ Cardinality(bindings) = Len(QUEUE_CONFIGS)

\* Two overlapping runs have both made every declaration.
C17_Witness ==
  /\ Len(runs) = 2
  /\ \A r \in 1..2 : runs[r].state = "done" /\ runs[r].made = Len(InitCalls)
  /\ bindings = TableBindings

\* The first descriptor of the table on exchange e.
FirstConfig(e) ==
  QUEUE_CONFIGS[CHOOSE i \in 1..Len(QUEUE_CONFIGS) :
                  /\ QUEUE_CONFIGS[i].exchange = e
                  /\ \A k \in 1..(i - 1) : QUEUE_CONFIGS[k].exchange # e]

\* The descriptor of the table for queue q.
ConfigOf(q) ==
  QUEUE_CONFIGS[CHOOSE i \in 1..Len(QUEUE_CONFIGS) :
                  QUEUE_CONFIGS[i].queue = q]

\* The order the claim asks of the broker calls L of one run.
Ordered(L) ==
  \A j \in 1..Len(L) :
    /\ L[j].op = "assertExchange" =>
         /\ \A i \in 1..(j - 1) :
              ~(L[i].op = "assertExchange" /\ L[i].name = L[j].name)
         /\ L[j].decl.type = FirstConfig(L[j].name).exchangeType
         /\ L[j].decl.durable /\ ~L[j].decl.autoDelete
    /\ L[j].op \in {"assertQueue", "bindQueue"} =>
         /\ L[j].exchange = ConfigOf(L[j].name).exchange
         /\ \E i \in 1..(j - 1) :
              L[i].op = "assertExchange" /\ L[i].name = L[j].exchange
    /\ L[j].op = "bindQueue" =>
         /\ \E i \in 1..(j - 1) :
              L[i].op = "assertQueue" /\ L[i].name = L[j].name
         /\ L[j].key = IF ConfigOf(L[j].name).routingKey = <<>> THEN ""
                       ELSE ConfigOf(L[j].name).routingKey[1]

\* Every exchange and every descriptor of the table is covered by L.
Complete(L) ==
  \A c \in 1..Len(QUEUE_CONFIGS) :
    /\ \E j \in 1..Len(L) :
         L[j].op = "assertExchange" /\ L[j].name = QUEUE_CONFIGS[c].exchange
    /\ Cardinality({j \in 1..Len(L) :
                      L[j].op = "assertQueue"
                        /\ L[j].name = QUEUE_CONFIGS[c].queue}) = 1
    /\ Cardinality({j \in 1..Len(L) :
                      L[j].op = "bindQueue"
                        /\ L[j].name = QUEUE_CONFIGS[c].queue}) = 1

\* The numbers n for which the first n calls of a run are in that order.
OrderedPrefixes ==
  {n \in 0..Len(InitCalls) : Ordered(SubSeq(InitCalls, 1, n))}

\* The numbers n for which the first n calls of a run cover the table.
CompletePrefixes ==
  {n \in 0..Len(InitCalls) : Complete(SubSeq(InitCalls, 1, n))}

\* C18: in every run of initializeQueues(), as far as it got, each exchange
\* is declared at most once, with the type of its first descriptor and the
\* default options, before any queue of that exchange is declared or
\* bound; a queue is declared before it is bound; the binding uses the
\* descriptor's routing key, or "" when it has none; and a run that
\* completed has declared every exchange once and declared and bound every
\* descriptor's queue once.
C18_DeclarationOrder ==
  \A r \in 1..Len(runs) :
    /\ runs[r].made \in OrderedPrefixes
    /\ runs[r].state = "done" => runs[r].made \in CompletePrefixes

\* A run has completed and the fan-out queues are bound with the empty key.
C18_Witness ==
  /\ \E r \in 1..Len(runs) : runs[r].state = "done"
  /\ <<"notifications.web", "notifications-exchange", "">> \in bindings
  /\ <<"urgent-tasks", "priority-exchange", "urgent">> \in bindings

\* C19: a run whose broker call fails stops at that call and does not set
\* initialized; manualInit() then returns success = false, the error in
\* its message and queues = 0; a failed run makes no further call and no
\* run is started for it; and a call made while initialized is false starts
\* the declarations from the first one.
C19_FailureSurfaced ==
  [][ /\ \A r \in 1..Len(runs) :
           /\ (runs[r].state = "running" /\ runs'[r].state = "failed") =>
                /\ runs'[r].made = runs[r].made + 1
                /\ runs'[r].error # "none"
                /\ initialized' = initialized
                /\ Len(runs') = Len(runs)
                /\ runs[r].caller = "manual" =>
                     runs'[r].result =
                       <<[success |-> FALSE,
                          message |-> <<"failed", runs'[r].error>>,
                          queues |-> 0]>>
           /\ runs[r].state = "failed" => runs'[r] = runs[r]
      /\ (Len(runs') > Len(runs) /\ ~initialized) =>
           /\ runs'[Len(runs')].state = "running"
           /\ runs'[Len(runs')].made = 0
      /\ (initialized' /\ ~initialized) =>
           \E r \in 1..Len(runs) :
             runs'[r].state = "done" /\ runs'[r].error = "none"
    ]_vars

\* manualInit() has failed on the conflicting queue and a later call has
\* gone through the whole declaration again.
C19_Witness ==
  /\ Len(runs) = 2
  /\ runs[1].caller = "manual" /\ runs[1].state = "failed"
  /\ runs[1].error = "preconditionFailed"
  /\ runs[1].result # <<>> /\ ~runs[1].result[1].success
  /\ runs[2].state = "done"
  /\ initialized

-----------------------------------------------------------------------------
(* PriorityQueueService: setupPriorityQueue / sendPriorityMessage.         *)

priorityQueuePrefix == "priority.queue"

MaxPatternCalls == 2

\* Priorities a caller may pass: around both ends of the valid range.
PriorityChoices == {-1, 0, 10, 255, 256}

\* Options a caller may pass; options.priority is overridden by the
\* priority argument.
PriorityOptionChoices ==
  {NoOptions, [NoOptions EXCEPT !.priority = JNum(5)],
   [NoOptions EXCEPT !.headers = JObj({<<"trace", 1>>})]}

\* `${this.priorityQueuePrefix}.${queueName}`
FullQueueName(queueName) == <<priorityQueuePrefix, ".", queueName>>

\* sendPriorityMessage with `>=` in place of `>` in the range check
SendPriorityMessageExcludes255(queueName, data, priority, options, id, ts) ==
  IF priority < 0 \/ priority >= 255
  THEN [threw |-> TRUE, error |-> "invalidPriority", calls |-> <<>>]
  ELSE [threw |-> FALSE, error |-> "none",
        calls |-> << [queue |-> FullQueueName(queueName),
                      msg |-> SendToQueue(
                                data,
                                [options EXCEPT !.priority = JNum(priority)],
                                id, ts)] >>]

\* sendPriorityMessage(queueName, data, priority, options)
SendPriorityMessage(queueName, data, priority, options, id, ts) ==
  IF priority < 0 \/ priority > 255
  THEN [threw |-> TRUE, error |-> "invalidPriority", calls |-> <<>>]
  ELSE [threw |-> FALSE, error |-> "none",
        calls |-> << [queue |-> FullQueueName(queueName),
                      msg |-> SendToQueue(
                                data,
                                [options EXCEPT !.priority = JNum(priority)],
                                id, ts)] >>]

\* setupPriorityQueue(queueName)
SetupPriorityQueue ==
  /\ channelOpen
  /\ ~pqDeclared
  /\ pqDeclared' = TRUE
  /\ UNCHANGED <<pattern, pqueue, fanoutVars, dlVars, queueVars, connVars,
                 initVars, workVars, serviceVars,
                 delayVars>>

\* A producer calls sendPriorityMessage("tasks", data, priority, options);
\* the broker drops what is sent to a queue it does not hold.
SendPriority ==
  /\ channelOpen
  /\ pattern.n < MaxPatternCalls
  /\ \E data \in SentPayloads, priority \in PriorityChoices,
        options \in PriorityOptionChoices :
       LET r == SendPriorityMessage("tasks", data, priority, options,
                                    nextId, now) IN
       /\ pattern' = [n |-> pattern.n + 1, op |-> "sendPriorityMessage",
                      priority |-> priority, threw |-> r.threw,
                      error |-> r.error, calls |-> r.calls]
       /\ pqueue' = IF pqDeclared /\ r.calls # <<>>
                    THEN Append(pqueue, r.calls[1].msg) ELSE pqueue
       /\ nextId' = IF r.calls # <<>> THEN nextId + 1 ELSE nextId
  /\ UNCHANGED <<pqDeclared, fanoutVars, dlVars, qargs, queue, dlq, unacked,
                 consumer, channelOpen, sends, now, deliveries, last, codec,
                 connVars, initVars, workVars, serviceVars,
                 delayVars>>

NextPattern == SetupPriorityQueue \/ SendPriority \/ Tick

SpecPattern == Init /\ [][NextPattern]_vars

-----------------------------------------------------------------------------
(* Claims about the pattern services (SpecPattern).                        *)

\* C20: a call of sendPriorityMessage with 0 <= p <= 255 does not throw and
\* makes one broker call, to priority.queue.<name>, whose AMQP priority and
\* envelope priority are p, so that the declared queue holds one message
\* more; a call with p < 0 or p > 255 throws the invalid-priority error,
\* makes no broker call and leaves the queue as it was.
C20_PriorityRange ==
  [][ pattern'.n = pattern.n + 1 =>
        IF 0 <= pattern'.priority /\ pattern'.priority <= 255
        THEN /\ ~pattern'.threw
             /\ Len(pattern'.calls) = 1
             /\ pattern'.calls[1].queue = <<"priority.queue", ".", "tasks">>
             /\ pattern'.calls[1].msg.priority = JNum(pattern'.priority)
             /\ Get(Parse(pattern'.calls[1].msg.content).obj, "priority")
                  = JNum(pattern'.priority)
             /\ pqDeclared =>
                  /\ Len(pqueue') = Len(pqueue) + 1
                  /\ pqueue'[Len(pqueue')] = pattern'.calls[1].msg
        ELSE /\ pattern'.threw
             /\ pattern'.error = "invalidPriority"
             /\ pattern'.calls = <<>>
             /\ UNCHANGED <<pqueue, nextId>>
    ]_vars

\* A message of priority 255 is in the queue and a call with priority 256
\* has just been refused.
C20_Witness ==
  /\ pattern.n = 2 /\ pattern.priority = 256 /\ pattern.threw
  /\ Len(pqueue) = 1 /\ pqueue[1].priority = JNum(255)

-----------------------------------------------------------------------------
(* DelayQueueService: setupDelayQueue / sendDelayMessage /                 *)
(* cancelDelayMessage, and RabbitMQService.scheduleTask.  Names are         *)
(* sequences of their parts.  The broker refuses an exchange type it does  *)
(* not know, the re-declaration of an exchange or queue with other         *)
(* properties, and a binding or a publish that names what it does not      *)
(* hold; each refusal closes the channel the call came through.  A queue   *)
(* with a message TTL passes a message on to its dead-letter exchange when *)
(* the TTL has run out; a delayed-message exchange routes a message when   *)
(* the x-delay of the message has run out.                                 *)

delayExchangePrefix == <<"delay.exchange">>
delayQueuePrefix == <<"delay.queue">>

DefaultMaxDelay == 86400000

MaxDelayCalls == 3
MaxDelayTime == 4

\* One call of assertExchange, assertQueue or bindQueue.
ExchangeCall(name, type) ==
  [op |-> "assertExchange", name |-> name, type |-> type, ttl |-> 0,
   dlx |-> <<>>, dlk |-> <<>>, exchange |-> <<>>, key |-> <<>>]
QueueCall(name, ttl, dlx, dlk) ==
  [op |-> "assertQueue", name |-> name, type |-> "", ttl |-> ttl,
   dlx |-> dlx, dlk |-> dlk, exchange |-> <<>>, key |-> <<>>]
BindCall(name, exchange, key) ==
  [op |-> "bindQueue", name |-> name, type |-> "", ttl |-> 0,
   dlx |-> <<>>, dlk |-> <<>>, exchange |-> exchange, key |-> key]

\* The broker's answer to one call on broker state b.
DelayBrokerError(b, call) ==
  IF b.channel = "closed" THEN "channelClosed"
  ELSE IF call.op = "assertExchange"
  THEN IF call.type = "x-delayed-message" /\ ~plugin THEN "commandInvalid"
       ELSE IF \A x \in b.exchanges : x.name = call.name => x.type = call.type
       THEN "none" ELSE "preconditionFailed"
  ELSE IF call.op = "assertQueue"
  THEN IF \A x \in b.queues :
            x.name = call.name =>
              x.ttl = call.ttl /\ x.dlx = call.dlx /\ x.dlk = call.dlk
       THEN "none" ELSE "preconditionFailed"
  ELSE IF /\ \E x \in b.queues : x.name = call.name
          /\ \E x \in b.exchanges : x.name = call.exchange
       THEN "none" ELSE "notFound"

\* The broker state after one call.
DelayBrokerAfter(b, call) ==
  IF DelayBrokerError(b, call) # "none" THEN [b EXCEPT !.channel = "closed"]
  ELSE IF call.op = "assertExchange"
  THEN [b EXCEPT !.exchanges = @ \cup {[name |-> call.name,
                                        type |-> call.type]}]
  ELSE IF call.op = "assertQueue"
  THEN [b EXCEPT !.queues = @ \cup {[name |-> call.name, ttl |-> call.ttl,
                                     dlx |-> call.dlx, dlk |-> call.dlk]}]
  ELSE [b EXCEPT !.bindings = @ \cup {[queue |-> call.name,
                                       exchange |-> call.exchange,
                                       key |-> call.key]}]

RECURSIVE RunCalls(_, _)
\* A sequence of awaited calls: it stops at the first that throws.
RunCalls(b, calls) ==
  IF calls = <<>> THEN [b |-> b, error |-> "none"]
  ELSE LET e == DelayBrokerError(b, Head(calls)) IN
       IF e # "none"
       THEN [b |-> DelayBrokerAfter(b, Head(calls)), error |-> e]
       ELSE RunCalls(DelayBrokerAfter(b, Head(calls)), Tail(calls))

\* setupDelayWithPlugin(delayExchange, targetQueue, options)
SetupDelayWithPlugin(delayExchange, targetQueue, options) ==
  << ExchangeCall(delayExchange, "x-delayed-message"),
     QueueCall(targetQueue, 0, <<>>, <<>>),
     BindCall(targetQueue, delayExchange, targetQueue) >>

\* setupDelayWithTTL(delayExchange, targetQueue, options)
SetupDelayWithTTL(delayExchange, targetQueue, options) ==
  LET delayQueue == delayQueuePrefix \o <<".">> \o targetQueue
      targetExchange == <<"direct.">> \o targetQueue IN
  << ExchangeCall(targetExchange, "direct"),
     QueueCall(targetQueue, 0, <<>>, <<>>),
     BindCall(targetQueue, targetExchange, targetQueue),
     ExchangeCall(delayExchange, "direct"),
     QueueCall(delayQueue,
               IF options.maxDelay # 0 THEN options.maxDelay
               ELSE DefaultMaxDelay,
               targetExchange, targetQueue),
     BindCall(delayQueue, delayExchange, targetQueue) >>

\* setupDelayQueue(queueName, options) on broker state b; options.maxDelay
\* is 0 and options.delayExchange is <<>> where the caller gives none.
SetupDelayQueue(b, queueName, options) ==
  LET delayExchange == IF options.delayExchange # <<>>
                       THEN options.delayExchange
                       ELSE delayExchangePrefix \o <<".">> \o queueName
      first == RunCalls(b, SetupDelayWithPlugin(delayExchange, queueName,
                                                options))
      second == RunCalls(first.b, SetupDelayWithTTL(delayExchange, queueName,
                                                    options)) IN
  IF first.error = "none"
  THEN [b |-> first.b, threw |-> FALSE, error |-> "none", mode |-> "plugin"]
  ELSE [b |-> second.b, threw |-> second.error # "none",
        error |-> second.error, mode |-> "ttl"]

\* { ...headers, [key]: value }
WithHeader(headers, key, value) ==
  JObj({x \in headers.m : x[1] # key} \cup {<<key, value>>})

\* publish(exchange, routingKey, data, options): what is handed to
\* channel.publish.
Publish(exchange, routingKey, data, options, id, ts) ==
  [exchange |-> exchange, key |-> routingKey, id |-> id, sentAt |-> ts,
   content |-> Serialize(data, options, id, ts),
   headers |-> IF Truthy(options.delay) /\ options.delay.n > 0
               THEN WithHeader(options.headers, "x-delay", options.delay.n)
               ELSE options.headers,
   expiration |-> JUndef]

\* sendDelayMessage(queueName, data, delayMs, options)
SendDelayMessage(queueName, data, delayMs, options, id, ts) ==
  Publish(delayExchangePrefix \o <<".">> \o queueName, queueName, data,
          [options EXCEPT !.delay = JNum(delayMs),
                          !.headers = WithHeader(options.headers, "x-delay",
                                                 delayMs)],
          id, ts)

ScheduleTaskAcceptsNow(taskName, data, executeAt, id, ts) ==
  LET delay == executeAt - ts IN
  IF delay < 0
  THEN [threw |-> TRUE, error |-> "notInFuture", pubs |-> <<>>]
  ELSE [threw |-> FALSE, error |-> "none",
        pubs |-> << SendDelayMessage(
                      <<"scheduled-tasks">>,
                      JObj({<<"taskName", taskName>>, <<"data", data>>,
                            <<"executeAt", executeAt>>}),
                      delay, NoOptions, id, ts) >>]

\* scheduleTask(taskName, data, executeAt); executeAt.toISOString() is the
\* member "executeAt" of the payload.
ScheduleTask(taskName, data, executeAt, id, ts) ==
  LET delay == executeAt - ts IN
  IF delay <= 0
  THEN [threw |-> TRUE, error |-> "notInFuture", pubs |-> <<>>]
  ELSE [threw |-> FALSE, error |-> "none",
        pubs |-> << SendDelayMessage(
                      <<"scheduled-tasks">>,
                      JObj({<<"taskName", taskName>>, <<"data", data>>,
                            <<"executeAt", executeAt>>}),
                      delay, NoOptions, id, ts) >>]

CancelDelayMessageReportsSuccess(queueName, messageId) ==
  [threw |-> FALSE, error |-> "none", returned |-> TRUE, pubs |-> <<>>]

\* cancelDelayMessage(queueName, messageId)
CancelDelayMessage(queueName, messageId) ==
  [threw |-> FALSE, error |-> "none", returned |-> FALSE, pubs |-> <<>>]

\* The queues of b a message published to exchange with key is routed to.
Bound(b, exchange, key) ==
  {x \in b.queues :
     [queue |-> x.name, exchange |-> exchange, key |-> key] \in b.bindings}

\* A message reaches the queues bound for it at time t: a queue with a
\* message TTL holds it until the TTL has run out.
HeldInQueues(b, msg, exchange, key, t) ==
  {[msg |-> msg, stage |-> "queue", queue |-> x.name, exchange |-> x.dlx,
    key |-> x.dlk, ttl |-> x.ttl, due |-> t + x.ttl] :
     x \in {y \in Bound(b, exchange, key) : y.ttl > 0}}
ArrivedInQueues(b, msg, exchange, key, t) ==
  {[msg |-> msg, queue |-> x.name, at |-> t] :
     x \in {y \in Bound(b, exchange, key) : y.ttl = 0}}

\* What the broker does with a publish at time t.
Routed(b, pub, t) ==
  LET known == \E x \in b.exchanges : x.name = pub.exchange IN
  IF ~known
  THEN [b |-> [b EXCEPT !.channel = "closed"], held |-> {}, arrived |-> {}]
  ELSE IF \E h \in pub.headers.m : h[1] = "x-delay" /\ h[2] > 0
            /\ [name |-> pub.exchange, type |-> "x-delayed-message"]
                 \in b.exchanges
  THEN [b |-> b, arrived |-> {},
        held |-> {[msg |-> pub, stage |-> "exchange", queue |-> <<>>,
                   exchange |-> pub.exchange, key |-> pub.key,
                   ttl |-> 0,
                   due |-> t + (CHOOSE d \in {h[2] : h \in
                                  {x \in pub.headers.m : x[1] = "x-delay"}} :
                                  TRUE)]}]
  ELSE [b |-> b,
        held |-> HeldInQueues(b, pub, pub.exchange, pub.key, t),
        arrived |-> ArrivedInQueues(b, pub, pub.exchange, pub.key, t)]

DelayOptionChoices ==
  [delayExchange : {<<>>, <<"custom.delay">>}, maxDelay : {0, 2}]

DelayChoices == {0, 1, 2}

\* The fields of delayCall for a call that publishes.
Called(op, ready, r, delay) ==
  [n |-> delayCall.n + 1, op |-> op, ready |-> ready, threw |-> r.threw,
   error |-> r.error, returned |-> ~r.threw, mode |-> "none",
   queue |-> "scheduled-tasks", delay |-> delay, at |-> now,
   pubs |-> r.pubs]

\* The broker takes the publishes of one call.
Published(pubs) ==
  IF pubs = <<>>
  THEN UNCHANGED <<dbroker, heldBack, arrived, nextId>>
  ELSE LET to == Routed(dbroker, pubs[1], now) IN
       /\ dbroker' = to.b
       /\ heldBack' = heldBack \cup to.held
       /\ arrived' = arrived \cup to.arrived
       /\ nextId' = nextId + 1

\* A caller sets the delay queue "scheduled-tasks" up.
DelaySetup ==
  /\ delayCall.n < MaxDelayCalls
  /\ \E options \in DelayOptionChoices :
       LET r == SetupDelayQueue(dbroker, <<"scheduled-tasks">>, options) IN
       /\ dbroker' = r.b
       /\ delayCall' = [n |-> delayCall.n + 1, op |-> "setupDelayQueue",
                        ready |-> dbroker.channel = "open",
                        threw |-> r.threw, error |-> r.error,
                        returned |-> ~r.threw, mode |-> r.mode,
                        queue |-> "scheduled-tasks", delay |-> 0,
                        at |-> now, pubs |-> <<>>]
  /\ UNCHANGED <<plugin, heldBack, arrived, queueVars, connVars, initVars,
                 patternVars>>

\* A producer calls sendDelayMessage("scheduled-tasks", data, delayMs);
\* publish() throws on a channel that is closed.
DelaySend ==
  /\ delayCall.n < MaxDelayCalls
  /\ \E delayMs \in DelayChoices :
       LET ready == dbroker.channel = "open"
           r == IF ready
                THEN [threw |-> FALSE, error |-> "none",
                      pubs |-> << SendDelayMessage(<<"scheduled-tasks">>,
                                                   JNum(7), delayMs,
                                                   NoOptions, nextId, now) >>]
                ELSE [threw |-> TRUE, error |-> "channelClosed",
                      pubs |-> <<>>] IN
       /\ delayCall' = Called("sendDelayMessage", ready, r, delayMs)
       /\ Published(r.pubs)
  /\ UNCHANGED <<plugin, qargs, queue, dlq, unacked, consumer, channelOpen,
                 sends, now, deliveries, last, codec, connVars, initVars,
                 patternVars>>

\* A caller schedules a task for the instant executeAt.
DelaySchedule ==
  /\ delayCall.n < MaxDelayCalls
  /\ \E executeAt \in 0..(MaxDelayTime + 1) :
       LET ready == dbroker.channel = "open"
           s == ScheduleTask(1, 7, executeAt, nextId, now)
           r == IF s.threw \/ ready THEN s
                ELSE [threw |-> TRUE, error |-> "channelClosed",
                      pubs |-> <<>>] IN
       /\ delayCall' = Called("scheduleTask", ready, r, executeAt - now)
       /\ Published(r.pubs)
  /\ UNCHANGED <<plugin, qargs, queue, dlq, unacked, consumer, channelOpen,
                 sends, now, deliveries, last, codec, connVars, initVars,
                 patternVars>>

\* A caller cancels a delayed message.
DelayCancel ==
  /\ delayCall.n < MaxDelayCalls
  /\ \E messageId \in 1..nextId :
       LET r == CancelDelayMessage(<<"scheduled-tasks">>, messageId) IN
       delayCall' = [n |-> delayCall.n + 1, op |-> "cancelDelayMessage",
                     ready |-> dbroker.channel = "open", threw |-> r.threw,
                     error |-> r.error, returned |-> r.returned,
                     mode |-> "none", queue |-> "scheduled-tasks",
                     delay |-> 0, at |-> now, pubs |-> r.pubs]
  /\ UNCHANGED <<plugin, dbroker, heldBack, arrived, queueVars, connVars,
                 initVars, patternVars>>

\* The broker passes on a message whose delay or TTL has run out: a delayed
\* exchange routes it, a queue dead-letters it (drops it without target).
Release ==
  \E h \in heldBack :
    /\ h.due <= now
    /\ heldBack' = (heldBack \ {h})
                     \cup HeldInQueues(dbroker, h.msg, h.exchange, h.key, now)
    /\ arrived' = arrived
                    \cup ArrivedInQueues(dbroker, h.msg, h.exchange, h.key,
                                         now)
    /\ UNCHANGED <<plugin, dbroker, delayCall, queueVars, connVars, initVars,
                   patternVars>>

\* The clock of the delay specification.
DelayTick ==
  /\ now < MaxDelayTime
  /\ now' = now + 1
  /\ UNCHANGED <<qargs, queue, dlq, unacked, consumer, channelOpen, nextId,
                 sends, deliveries, last, codec, notQueueVars>>

\* A reconnect gives the services a new channel.
DelayChannelReplaced ==
  /\ dbroker.channel = "closed"
  /\ dbroker' = [dbroker EXCEPT !.channel = "open"]
  /\ UNCHANGED <<plugin, heldBack, arrived, delayCall, queueVars, connVars,
                 initVars, patternVars>>

\* The queue, the connection, the initialisation and the pattern services
\* at rest, for the delay specification.
NotDelayInit ==
  /\ qargs = "absent" /\ queue = <<>> /\ dlq = <<>> /\ unacked = <<>>
  /\ consumer = NoConsumer /\ channelOpen = TRUE
  /\ nextId = 1 /\ sends = 0 /\ now = 1 /\ deliveries = 0
  /\ last = NoDelivery
  /\ codec = CodecIdle
  /\ ConnFields /\ broker = "up"
  /\ InitFields /\ PatternFields

\* A broker with or without the delayed-message plugin.
InitDelay == DelayIdle /\ plugin \in BOOLEAN /\ NotDelayInit

NextDelay ==
  \/ DelaySetup
  \/ DelaySend
  \/ DelaySchedule
  \/ DelayCancel
  \/ Release
  \/ DelayTick
  \/ DelayChannelReplaced

SpecDelay == InitDelay /\ [][NextDelay]_vars

DelayTypeOK ==
  /\ delayCall.n \in 0..MaxDelayCalls
  /\ \A h \in heldBack : h.due >= h.msg.sentAt

\* C21: scheduleTask with an execution time that is not in the future throws
\* "not in the future" and hands nothing to the broker; with a future time
\* (and a channel to publish on) it returns after one publish to the delay
\* exchange of "scheduled-tasks" whose x-delay is executeAt - now.
C21_ScheduleTask ==
  [][(delayCall'.n # delayCall.n /\ delayCall'.op = "scheduleTask") =>
       /\ delayCall'.delay <= 0 =>
            /\ delayCall'.threw /\ delayCall'.error = "notInFuture"
            /\ delayCall'.pubs = <<>>
            /\ dbroker' = dbroker /\ heldBack' = heldBack
            /\ arrived' = arrived
       /\ (delayCall'.delay > 0 /\ delayCall'.ready) =>
            /\ ~delayCall'.threw
            /\ Len(delayCall'.pubs) = 1
            /\ delayCall'.pubs[1].exchange
                 = <<"delay.exchange", ".", "scheduled-tasks">>
            /\ delayCall'.pubs[1].key = <<"scheduled-tasks">>
            /\ {h[2] : h \in {x \in delayCall'.pubs[1].headers.m :
                                x[1] = "x-delay"}} = {delayCall'.delay}]_vars

\* A task scheduled for the present instant was rejected after an earlier
\* one, two ticks ahead, had been published.
C21_Witness ==
  /\ delayCall.op = "scheduleTask" /\ delayCall.delay = 0
  /\ delayCall.threw /\ delayCall.error = "notInFuture"
  /\ \E h \in heldBack :
       /\ <<"x-delay", 2>> \in h.msg.headers.m
       /\ \E kv \in h.msg.content.obj.data.m : kv[1] = "taskName"

\* The TTL + dead-letter topology of queueName on broker b: a holding queue
\* bound to the delay exchange that dead-letters to the bound target queue.
TTLTopology(b, delayExchange, queueName) ==
  LET delayQueue == delayQueuePrefix \o <<".">> \o queueName
      targetExchange == <<"direct.">> \o queueName IN
  /\ \E q \in b.queues :
       /\ q.name = delayQueue /\ q.ttl > 0
       /\ q.dlx = targetExchange /\ q.dlk = queueName
  /\ [queue |-> delayQueue, exchange |-> delayExchange, key |-> queueName]
       \in b.bindings
  /\ \E q \in b.queues : q.name = queueName
  /\ [queue |-> queueName, exchange |-> targetExchange, key |-> queueName]
       \in b.bindings

\* C22: setupDelayQueue called on an open channel succeeds; when the
\* delayed-exchange declaration of the plugin set-up fails it completes the
\* TTL + dead-letter set-up, a holding queue whose dead-letter target is the
\* destination exchange and queue.
C22_FallbackCompletes ==
  (delayCall.op = "setupDelayQueue" /\ delayCall.ready) =>
    /\ ~delayCall.threw
    /\ delayCall.mode = "ttl" =>
         \E x \in dbroker.exchanges :
           /\ x.type = "direct"
           /\ TTLTopology(dbroker, x.name, <<"scheduled-tasks">>)

\* No call of setupDelayQueue ever completes the TTL set-up.
TTLModeNeverSetUp ==
  ~(delayCall.op = "setupDelayQueue" /\ delayCall.mode = "ttl"
      /\ ~delayCall.threw)

\* C23: on a broker without the delayed-message plugin a message sent with
\* sendDelayMessage(queue, data, d), d > 0, is held in a holding queue whose
\* message TTL is d, and reaches the final queue no earlier than d after
\* it was sent.
C23_TTLHonoursDelay ==
  (/\ ~plugin
   /\ delayCall.op = "sendDelayMessage" /\ delayCall.returned
   /\ delayCall.delay > 0) =>
    LET m == delayCall.pubs[1] IN
    \/ \E h \in heldBack :
         /\ h.msg.id = m.id /\ h.stage = "queue"
         /\ h.ttl = delayCall.delay
    \/ \E a \in arrived :
         /\ a.msg.id = m.id /\ a.queue = <<"scheduled-tasks">>
         /\ a.at >= m.sentAt + delayCall.delay

-----------------------------------------------------------------------------
(* FanoutQueueService                                                      *)

fanoutExchangePrefix == "fanout.exchange"

MaxFanoutCalls == 5

\* `${fanoutExchangePrefix}.${exchangeName}`
FullExchangeName(exchangeName) == <<fanoutExchangePrefix, ".", exchangeName>>

\* What the broker answers to one declaration of the fan-out service.
FanoutBrokerError(b, call) ==
  IF b.channel # "open" THEN "channelClosed"
  ELSE IF call.op = "assertExchange"
          /\ \E x \in b.exchanges : x.name = call.name /\ x.type # call.type
  THEN "preconditionFailed"
  ELSE IF call.op = "bindQueue"
          /\ (\/ call.name \notin b.queues
              \/ ~\E x \in b.exchanges : x.name = call.exchange)
  THEN "notFound"
  ELSE "none"

\* The broker after one declaration: a refused one closes the channel.
FanoutBrokerAfter(b, call) ==
  IF FanoutBrokerError(b, call) # "none"
  THEN [b EXCEPT !.channel = "closed"]
  ELSE IF call.op = "assertExchange"
  THEN [b EXCEPT !.exchanges = @ \cup {[name |-> call.name,
                                        type |-> call.type]}]
  ELSE IF call.op = "assertQueue"
  THEN [b EXCEPT !.queues = @ \cup {call.name}]
  ELSE [b EXCEPT !.bindings = @ \cup {[queue |-> call.name,
                                       exchange |-> call.exchange,
                                       key |-> call.key]}]

\* The awaits of a fan-out operation in sequence, up to the first that
\* throws.
RECURSIVE RunFanoutCalls(_, _)
RunFanoutCalls(b, calls) ==
  IF calls = <<>> THEN [b |-> b, error |-> "none"]
  ELSE IF FanoutBrokerError(b, Head(calls)) # "none"
  THEN [b |-> FanoutBrokerAfter(b, Head(calls)),
        error |-> FanoutBrokerError(b, Head(calls))]
  ELSE RunFanoutCalls(FanoutBrokerAfter(b, Head(calls)), Tail(calls))

\* setupFanoutExchange(exchangeName)
SetupFanoutExchange(exchangeName) ==
  << [op |-> "assertExchange", name |-> FullExchangeName(exchangeName),
      type |-> "fanout", exchange |-> <<>>, key |-> ""] >>

BindQueueToFanoutDeclaresOnly(exchangeName, queueName) ==
  << [op |-> "assertQueue", name |-> queueName, type |-> "",
      exchange |-> <<>>, key |-> ""] >>

\* bindQueueToFanout(exchangeName, queueName)
BindQueueToFanout(exchangeName, queueName) ==
  << [op |-> "assertQueue", name |-> queueName, type |-> "",
      exchange |-> <<>>, key |-> ""],
     [op |-> "bindQueue", name |-> queueName, type |-> "",
      exchange |-> FullExchangeName(exchangeName), key |-> ""] >>

\* broadcast(exchangeName, data, options)
Broadcast(exchangeName, data, options, id, ts) ==
  Publish(FullExchangeName(exchangeName), "", data, options, id, ts)

\* The queues a publish is copied to: an exchange of type fanout ignores
\* the routing key, any other compares it with the binding key.
RoutedTo(b, pub) ==
  {q \in b.queues :
     \E x \in b.exchanges, g \in b.bindings :
       /\ x.name = pub.exchange
       /\ g.exchange = pub.exchange /\ g.queue = q
       /\ x.type = "fanout" \/ g.key = pub.key}

\* A caller sets the fan-out exchange "events" up.
FanoutSetup ==
  /\ fanoutCall.n < MaxFanoutCalls
  /\ LET r == RunFanoutCalls(fanoutBroker, SetupFanoutExchange("events")) IN
     /\ fanoutBroker' = r.b
     /\ fanoutCall' = [fanoutCall EXCEPT
                         !.n = @ + 1, !.op = "setupFanoutExchange",
                         !.ready = fanoutBroker.channel = "open",
                         !.threw = r.error # "none", !.queue = "",
                         !.setUp = @ \/ r.error = "none"]
  /\ UNCHANGED <<fanoutContents, pattern, pqueue, pqDeclared, dlVars,
                 queueVars, connVars, initVars, workVars, serviceVars,
                 delayVars>>

\* A caller declares one queue and binds it to the exchange "events".
FanoutBind ==
  /\ fanoutCall.n < MaxFanoutCalls
  /\ \E queueName \in FanoutQueueNames :
       LET r == RunFanoutCalls(fanoutBroker,
                               BindQueueToFanout("events", queueName)) IN
       /\ fanoutBroker' = r.b
       /\ fanoutCall' = [fanoutCall EXCEPT
                           !.n = @ + 1, !.op = "bindQueueToFanout",
                           !.ready = fanoutBroker.channel = "open",
                           !.threw = r.error # "none", !.queue = queueName,
                           !.bound = IF r.error = "none"
                                     THEN @ \cup {queueName} ELSE @]
  /\ UNCHANGED <<fanoutContents, pattern, pqueue, pqDeclared, dlVars,
                 queueVars, connVars, initVars, workVars, serviceVars,
                 delayVars>>

\* A producer broadcasts to "events": publish() throws on a closed channel;
\* the broker closes the channel on a publish to an exchange it does not
\* hold, and copies any other publish to the queues it is routed to.
FanoutBroadcast ==
  /\ fanoutCall.n < MaxFanoutCalls
  /\ LET ready == fanoutBroker.channel = "open"
         id == fanoutCall.n + 1
         pub == Broadcast("events", JNum(7), NoOptions, id, now)
         known == \E x \in fanoutBroker.exchanges : x.name = pub.exchange IN
     /\ fanoutCall' = [fanoutCall EXCEPT
                         !.n = @ + 1, !.op = "broadcast", !.ready = ready,
                         !.threw = ~ready, !.queue = "", !.id = id]
     /\ fanoutBroker' = IF ready /\ ~known
                        THEN [fanoutBroker EXCEPT !.channel = "closed"]
                        ELSE fanoutBroker
     /\ fanoutContents' =
          [q \in FanoutQueueNames |->
             IF ready /\ q \in RoutedTo(fanoutBroker, pub)
             THEN Append(fanoutContents[q], pub)
             ELSE fanoutContents[q]]
  /\ UNCHANGED <<pattern, pqueue, pqDeclared, dlVars, queueVars, connVars,
                 initVars, workVars, serviceVars,
                 delayVars>>

\* A reconnect gives the fan-out service a new channel.
FanoutChannelReplaced ==
  /\ fanoutBroker.channel = "closed"
  /\ fanoutBroker' = [fanoutBroker EXCEPT !.channel = "open"]
  /\ UNCHANGED <<fanoutContents, fanoutCall, pattern, pqueue, pqDeclared,
                 dlVars, queueVars, connVars, initVars, workVars, serviceVars,
                 delayVars>>

NextFanout ==
  \/ FanoutSetup
  \/ FanoutBind
  \/ FanoutBroadcast
  \/ FanoutChannelReplaced

SpecFanout == Init /\ [][NextFanout]_vars

\* Copies of the message with this id in a queue.
Copies(q, id) ==
  Cardinality({i \in 1..Len(fanoutContents[q]) : fanoutContents[q][i].id = id})

\* C25: once setupFanoutExchange(e) and bindQueueToFanout(e, q) of N queues
\* have returned, one broadcast(e, payload) on an open channel puts exactly
\* one copy of the message into each of the N queues, however often a queue
\* was bound, and none anywhere else.
C25_FanoutComplete ==
  (fanoutCall.op = "broadcast" /\ fanoutCall.ready /\ fanoutCall.setUp) =>
    /\ ~fanoutCall.threw
    /\ \A q \in FanoutQueueNames :
         Copies(q, fanoutCall.id)
           = IF q \in fanoutCall.bound THEN 1 ELSE 0

\* A broadcast put one copy into each of three bound queues.
C25_Witness ==
  /\ fanoutCall.op = "broadcast" /\ fanoutCall.ready
  /\ fanoutCall.bound = FanoutQueueNames
  /\ \A q \in FanoutQueueNames : Copies(q, fanoutCall.id) = 1

-----------------------------------------------------------------------------
(* DeadLetterQueueService.setupDeadLetterQueue                             *)

dlxPrefix == <<"dlx">>
dlqPrefix == <<"dlq">>

MaxDlCalls == 3

\* The protected queues of the dead-letter set-up specification.
ProtectedQueues == {<<"orders">>, <<"payments">>}

\* options of setupDeadLetterQueue; <<>> and 0 where the caller gives none.
DlOptionChoices ==
  [deadLetterExchange : {<<>>, <<"dlx.shared">>},
   deadLetterRoutingKey : {<<>>, <<"failed">>},
   messageTtl : {0, 2}]

SetupDeadLetterQueueBindsByDlqName(originalQueue, options) ==
  LET dlxName == IF options.deadLetterExchange # <<>>
                 THEN options.deadLetterExchange
                 ELSE dlxPrefix \o <<".">> \o originalQueue
      dlqName == dlqPrefix \o <<".">> \o originalQueue
      dlRoutingKey == IF options.deadLetterRoutingKey # <<>>
                      THEN options.deadLetterRoutingKey
                      ELSE originalQueue IN
  << ExchangeCall(dlxName, "direct"),
     QueueCall(dlqName, options.messageTtl, <<>>, <<>>),
     BindCall(dlqName, dlxName, dlqName),
     QueueCall(originalQueue, options.messageTtl, dlxName, dlRoutingKey) >>

\* setupDeadLetterQueue(originalQueue, options): its four awaits.
SetupDeadLetterQueueCalls(originalQueue, options) ==
  LET dlxName == IF options.deadLetterExchange # <<>>
                 THEN options.deadLetterExchange
                 ELSE dlxPrefix \o <<".">> \o originalQueue
      dlqName == dlqPrefix \o <<".">> \o originalQueue
      dlRoutingKey == IF options.deadLetterRoutingKey # <<>>
                      THEN options.deadLetterRoutingKey
                      ELSE originalQueue IN
  << ExchangeCall(dlxName, "direct"),
     QueueCall(dlqName, options.messageTtl, <<>>, <<>>),
     BindCall(dlqName, dlxName, dlRoutingKey),
     QueueCall(originalQueue, options.messageTtl, dlxName, dlRoutingKey) >>

\* The calls of a sequence that are made: up to the first that throws.
RECURSIVE CallsMade(_, _)
CallsMade(b, calls) ==
  IF calls = <<>> THEN <<>>
  ELSE IF DelayBrokerError(b, Head(calls)) # "none" THEN <<Head(calls)>>
  ELSE <<Head(calls)>>
         \o CallsMade(DelayBrokerAfter(b, Head(calls)), Tail(calls))

\* The queues the broker passes a message to that is rejected without
\* requeue from the queue queueName.
DeadLetterQueues(b, queueName) ==
  UNION {{x.name : x \in Bound(b, q.dlx, q.dlk)} :
           q \in {y \in b.queues : y.name = queueName /\ y.dlx # <<>>}}

\* A caller sets the dead-letter queue of a protected queue up.
DlSetup ==
  /\ dlCall.n < MaxDlCalls
  /\ \E originalQueue \in ProtectedQueues, options \in DlOptionChoices :
       LET calls == SetupDeadLetterQueueCalls(originalQueue, options)
           r == RunCalls(dlBroker, calls) IN
       /\ dlBroker' = r.b
       /\ dlCall' = [n |-> dlCall.n + 1, op |-> "setupDeadLetterQueue",
                     threw |-> r.error # "none", error |-> r.error,
                     queue |-> originalQueue, options |-> options,
                     calls |-> CallsMade(dlBroker, calls)]
  /\ UNCHANGED <<dlqVars, pattern, pqueue, pqDeclared, fanoutVars,
                 queueVars, connVars, initVars, workVars, serviceVars,
                 delayVars>>

\* Another component declares a protected queue without arguments.
DlPlainDeclare ==
  /\ dlCall.n < MaxDlCalls
  /\ \E queueName \in ProtectedQueues :
       LET r == RunCalls(dlBroker, <<QueueCall(queueName, 0, <<>>, <<>>)>>) IN
       /\ dlBroker' = r.b
       /\ dlCall' = [dlCall EXCEPT !.n = @ + 1, !.op = "assertQueue",
                                   !.threw = r.error # "none",
                                   !.error = r.error, !.queue = queueName,
                                   !.calls = <<>>]
  /\ UNCHANGED <<dlqVars, pattern, pqueue, pqDeclared, fanoutVars,
                 queueVars, connVars, initVars, workVars, serviceVars,
                 delayVars>>

\* A reconnect gives the service a new channel.
DlChannelReplaced ==
  /\ dlBroker.channel = "closed"
  /\ dlBroker' = [dlBroker EXCEPT !.channel = "open"]
  /\ UNCHANGED <<dlCall, dlqVars, pattern, pqueue, pqDeclared, fanoutVars,
                 queueVars, connVars, initVars, workVars, serviceVars,
                 delayVars>>

NextDl == DlSetup \/ DlPlainDeclare \/ DlChannelReplaced

SpecDl == Init /\ [][NextDl]_vars

\* C26: after setupDeadLetterQueue(queue) has returned, the dead-letter
\* exchange and dlq.<queue> exist and are bound, with the queue's own name
\* as routing key unless the caller gave another, the protected queue's
\* dead-letter arguments name that exchange and key, and what is rejected
\* without requeue from the protected queue is passed to dlq.<queue>; the
\* exchange, the dead-letter queue and the binding are declared, in this
\* order, before the protected queue, so that at no time a protected queue
\* carries dead-letter arguments without its dead-letter queue bound.
C26_DeadLetterTopology ==
  /\ (dlCall.op = "setupDeadLetterQueue" /\ ~dlCall.threw) =>
       LET q == dlCall.queue
           dlqName == <<"dlq", ".">> \o q
           dlxName == IF dlCall.options.deadLetterExchange = <<>>
                      THEN <<"dlx", ".">> \o q
                      ELSE dlCall.options.deadLetterExchange
           key == IF dlCall.options.deadLetterRoutingKey = <<>>
                  THEN q ELSE dlCall.options.deadLetterRoutingKey IN
       /\ [name |-> dlxName, type |-> "direct"] \in dlBroker.exchanges
       /\ \E x \in dlBroker.queues : x.name = dlqName /\ x.dlx = <<>>
       /\ [queue |-> dlqName, exchange |-> dlxName, key |-> key]
            \in dlBroker.bindings
       /\ \E x \in dlBroker.queues :
            x.name = q /\ x.dlx = dlxName /\ x.dlk = key
       /\ dlqName \in DeadLetterQueues(dlBroker, q)
       /\ Len(dlCall.calls) = 4
       /\ dlCall.calls[1].op = "assertExchange"
       /\ dlCall.calls[2].op = "assertQueue" /\ dlCall.calls[2].name = dlqName
       /\ dlCall.calls[3].op = "bindQueue"
       /\ dlCall.calls[4].op = "assertQueue" /\ dlCall.calls[4].name = q
  /\ \A x \in dlBroker.queues :
       x.dlx # <<>> => (<<"dlq", ".">> \o x.name)
                         \in DeadLetterQueues(dlBroker, x.name)

\* setupDeadLetterQueue("orders") without options has returned.
C26_Witness ==
  /\ dlCall.op = "setupDeadLetterQueue" /\ ~dlCall.threw
  /\ dlCall.queue = <<"orders">>
  /\ dlCall.options = NoDlCall.options
  /\ [queue |-> <<"dlq", ".", "orders">>,
      exchange |-> <<"dlx", ".", "orders">>, key |-> <<"orders">>]
       \in dlBroker.bindings

-----------------------------------------------------------------------------
(* The dead-letter queue and its consumer                                  *)

\* The options of the dead-letter queue specification.
DlqOptionChoices ==
  [deadLetterExchange : {<<>>}, deadLetterRoutingKey : {<<>>},
   messageTtl : {0, 1}]

\* The x-message-ttl of a queue of broker b, 0 if it has none.
TtlOf(b, queueName) ==
  IF \E x \in b.queues : x.name = queueName /\ x.ttl > 0
  THEN (CHOOSE x \in b.queues : x.name = queueName /\ x.ttl > 0).ttl
  ELSE 0

\* The copies the broker makes of message m when it dead-letters it from
\* the queue it is in: none if that queue has no dead-letter target.
DeadLetterCopies(b, m, t, via) ==
  {[m EXCEPT !.queue = q, !.since = t, !.via = via] :
     q \in DeadLetterQueues(b, m.queue)}

ConsumeDeadLetterQueueHandlerRethrows(appThrew) ==
  [threw |-> appThrew, escalated |-> appThrew]

\* The callback consumeDeadLetterQueue hands to consume: a failure of the
\* handler is caught and passed to handleDeadLetterFailure, which logs it.
ConsumeDeadLetterQueueHandler(appThrew) ==
  [threw |-> FALSE, escalated |-> appThrew]

\* setupDeadLetterQueue("orders", options)
DlqSetup ==
  /\ dlCall.n < MaxDlCalls
  /\ \E options \in DlqOptionChoices :
       LET calls == SetupDeadLetterQueueCalls(<<"orders">>, options)
           r == RunCalls(dlBroker, calls) IN
       /\ dlBroker' = r.b
       /\ dlCall' = [n |-> dlCall.n + 1, op |-> "setupDeadLetterQueue",
                     threw |-> r.error # "none", error |-> r.error,
                     queue |-> <<"orders">>, options |-> options,
                     calls |-> CallsMade(dlBroker, calls)]
       /\ dlConsumer' = (dlConsumer /\ r.b.channel = "open")
  /\ UNCHANGED <<dlMessages, dlLast, pattern, pqueue, pqDeclared,
                 fanoutVars, queueVars, connVars, initVars, workVars, serviceVars,
                 delayVars>>

\* A producer: sendToQueue("orders", data); the broker drops what is sent
\* to a queue it does not hold.
DlqSend ==
  /\ dlBroker.channel = "open"
  /\ sends < MaxSends
  /\ \E data \in SentPayloads :
       LET m == SendToQueue(data, NoOptions, nextId, now) IN
       dlMessages' =
         IF \E x \in dlBroker.queues : x.name = <<"orders">>
         THEN dlMessages \cup {[id |-> nextId, content |-> m.content,
                                queue |-> <<"orders">>, since |-> now,
                                via |-> "send"]}
         ELSE dlMessages
  /\ nextId' = nextId + 1
  /\ sends' = sends + 1
  /\ UNCHANGED <<dlBroker, dlCall, dlConsumer, dlLast, pattern, pqueue,
                 pqDeclared, fanoutVars, qargs, queue, dlq, unacked,
                 consumer, channelOpen, now, deliveries, last, codec,
                 connVars, initVars, workVars, serviceVars,
                 delayVars>>

\* A consumer of the protected queue rejects a message without requeue:
\* the broker dead-letters it.
DlqReject ==
  \E m \in dlMessages :
    /\ m.queue = <<"orders">>
    /\ LET copies == DeadLetterCopies(dlBroker, m, now, "rejected") IN
       /\ dlMessages' = (dlMessages \ {m}) \cup copies
       /\ dlLast' = [dlLast EXCEPT
                       !.deadLettered = IF copies # {} THEN @ \cup {m.id}
                                        ELSE @]
    /\ UNCHANGED <<dlBroker, dlCall, dlConsumer, pattern, pqueue,
                   pqDeclared, fanoutVars, queueVars, connVars, initVars,
                   workVars, serviceVars,
                 delayVars>>

\* The x-message-ttl of the queue a message is in has run out: the broker
\* dead-letters the message, which drops it where the queue has no target.
DlqExpire ==
  \E m \in dlMessages :
    /\ TtlOf(dlBroker, m.queue) > 0
    /\ m.since + TtlOf(dlBroker, m.queue) <= now
    /\ LET copies == DeadLetterCopies(dlBroker, m, now, "expired") IN
       /\ dlMessages' = (dlMessages \ {m}) \cup copies
       /\ dlLast' = [dlLast EXCEPT
                       !.deadLettered = IF copies # {} THEN @ \cup {m.id}
                                        ELSE @]
    /\ UNCHANGED <<dlBroker, dlCall, dlConsumer, pattern, pqueue,
                   pqDeclared, fanoutVars, queueVars, connVars, initVars,
                   workVars, serviceVars,
                 delayVars>>

\* consumeDeadLetterQueue("orders", handler): consuming from a queue the
\* broker does not hold is a channel error.
DlqConsume ==
  /\ dlBroker.channel = "open"
  /\ ~dlConsumer
  /\ IF \E x \in dlBroker.queues : x.name = <<"dlq", ".", "orders">>
     THEN dlConsumer' = TRUE /\ UNCHANGED dlBroker
     ELSE /\ dlBroker' = [dlBroker EXCEPT !.channel = "closed"]
          /\ UNCHANGED dlConsumer
  /\ UNCHANGED <<dlCall, dlMessages, dlLast, pattern, pqueue, pqDeclared,
                 fanoutVars, queueVars, connVars, initVars, workVars, serviceVars,
                 delayVars>>

\* One delivery from dlq.orders: the callback of consume decodes the
\* message, runs the callback of consumeDeadLetterQueue and acknowledges.
DlqDeliver ==
  /\ dlBroker.channel = "open"
  /\ dlConsumer
  /\ \E m \in dlMessages, appThrew \in BOOLEAN :
       /\ m.queue = <<"dlq", ".", "orders">>
       /\ LET d == Deserialize(m.content)
              h == IF d.ok THEN ConsumeDeadLetterQueueHandler(appThrew)
                   ELSE [threw |-> FALSE, escalated |-> FALSE]
              acks == ConsumeAcks(d.ok, h.threw, FALSE)
              fate == Fate(acks, FALSE, "plain") IN
          /\ dlMessages' = IF fate = "requeued" THEN dlMessages
                           ELSE dlMessages \ {m}
          /\ dlLast' = [dlLast EXCEPT
                          !.id = m.id, !.appThrew = d.ok /\ appThrew,
                          !.threw = h.threw, !.escalated = h.escalated,
                          !.acks = acks, !.fate = fate,
                          !.taken = IF fate = "acked" THEN @ \cup {m.id}
                                    ELSE @,
                          !.failed = IF d.ok /\ appThrew THEN @ \cup {m.id}
                                     ELSE @]
  /\ UNCHANGED <<dlBroker, dlCall, dlConsumer, pattern, pqueue, pqDeclared,
                 fanoutVars, queueVars, connVars, initVars, workVars, serviceVars,
                 delayVars>>

\* A reconnect gives the service a new channel, without its consumers.
DlqChannelReplaced ==
  /\ dlBroker.channel = "closed"
  /\ dlBroker' = [dlBroker EXCEPT !.channel = "open"]
  /\ dlConsumer' = FALSE
  /\ UNCHANGED <<dlCall, dlMessages, dlLast, pattern, pqueue, pqDeclared,
                 fanoutVars, queueVars, connVars, initVars, workVars, serviceVars,
                 delayVars>>

NextDlq ==
  \/ DlqSetup
  \/ DlqSend
  \/ DlqReject
  \/ DlqExpire
  \/ DlqConsume
  \/ DlqDeliver
  \/ DlqChannelReplaced
  \/ Tick

SpecDlq == Init /\ [][NextDlq]_vars

\* C27: a failure of the handler under consumeDeadLetterQueue is passed to
\* handleDeadLetterFailure and the message is acknowledged; the message is
\* in no queue afterwards, so it is neither requeued nor delivered to the
\* dead-letter handler again.
C27_DeadLetterFailureTerminal ==
  /\ dlLast.appThrew =>
       /\ dlLast.escalated /\ ~dlLast.threw
       /\ dlLast.acks = <<Ack>> /\ dlLast.fate = "acked"
  /\ \A id \in dlLast.failed :
       /\ id \in dlLast.taken
       /\ \A m \in dlMessages : m.id # id

\* The dead-letter handler failed on a message while another dead letter
\* was still waiting.
C27_Witness ==
  /\ dlLast.appThrew /\ dlLast.fate = "acked"
  /\ dlLast.id \in dlLast.failed
  /\ \E m \in dlMessages : m.queue = <<"dlq", ".", "orders">>

\* C28: a message that has entered the dead-letter queue is in it until the
\* dead-letter consumer takes it, whatever options setupDeadLetterQueue was
\* given, and no dead-lettered message is in the protected queue again.
C28_DeadLetteredTerminal ==
  \A id \in dlLast.deadLettered :
    /\ \/ id \in dlLast.taken
       \/ \E m \in dlMessages :
            m.id = id /\ m.queue = <<"dlq", ".", "orders">>
    /\ ~\E m \in dlMessages : m.id = id /\ m.queue = <<"orders">>

-----------------------------------------------------------------------------
(* WorkQueueService                                                        *)

MaxWorkSends == 3
MaxWorkDeliveries == 4
MaxWorkerStarts == 1

\* RABBITMQ_PREFETCH_COUNT: not set, or set to 1.
PrefetchChoices == {DefaultPrefetchCount, 1}

\* startMultipleWorkers: workerCount argument
WorkerCountChoices == {1, 2}

\* `worker-${i + 1}` for the loop index i + 1 = k
WorkerId(k) == <<"worker-", k>>

\* startMultipleWorkers(queueName, handler, workerCount): the consumers it
\* registers, in order; consumeWork passes no consumer options and sets no
\* prefetch.
StartMultipleWorkersConsumers(workerCount) ==
  [k \in 1..workerCount |-> [id |-> WorkerId(k), held |-> {}, received |-> 0]]

\* The callback consumeWork hands to consume: it logs and rethrows.
ConsumeWorkHandler(appThrew) == [threw |-> appThrew]

\* The consumer the broker delivers to next: the first with room under the
\* prefetch count, in round-robin order from turn; 0 if none has room.
NextConsumer(ws, turn, prefetch) ==
  LET n == Len(ws)
      At(k) == ((turn - 1 + k) % n) + 1
      free == {k \in 0..(n - 1) : Cardinality(ws[At(k)].held) < prefetch} IN
  IF n = 0 \/ free = {} THEN 0
  ELSE At(CHOOSE k \in free : \A j \in free : k <= j)

\* setupWorkQueue("tasks")
WorkSetup ==
  /\ workStats.channel = "open"
  /\ ~workDeclared
  /\ workDeclared' = TRUE
  /\ UNCHANGED <<prefetchCount, workQueue, workers, workStats, pattern,
                 pqueue, pqDeclared, fanoutVars, dlVars, queueVars, connVars,
                 initVars, serviceVars, delayVars>>

\* sendWork("tasks", data): the broker drops what is sent to a queue it
\* does not hold.
WorkSend ==
  /\ workStats.channel = "open"
  /\ workStats.sent < MaxWorkSends
  /\ workQueue' = IF workDeclared THEN Append(workQueue, workStats.sent + 1)
                  ELSE workQueue
  /\ workStats' = [workStats EXCEPT !.sent = @ + 1]
  /\ UNCHANGED <<prefetchCount, workDeclared, workers, pattern, pqueue,
                 pqDeclared, fanoutVars, dlVars, queueVars, connVars,
                 initVars, serviceVars, delayVars>>

\* startMultipleWorkers("tasks", handler, workerCount): consuming from a
\* queue the broker does not hold is a channel error, which cancels the
\* consumers of the channel and requeues what they hold.
StartMultipleWorkers ==
  /\ workStats.channel = "open"
  /\ workStats.starts < MaxWorkerStarts
  /\ \E workerCount \in WorkerCountChoices :
       IF workDeclared
       THEN /\ workers' = workers \o StartMultipleWorkersConsumers(workerCount)
            /\ workStats' = [workStats EXCEPT !.starts = @ + 1]
       ELSE /\ workers' = <<>>
            /\ workStats' = [workStats EXCEPT !.starts = @ + 1,
                                              !.channel = "closed",
                                              !.turn = 1]
  /\ UNCHANGED <<prefetchCount, workDeclared, workQueue, pattern, pqueue,
                 pqDeclared, fanoutVars, dlVars, queueVars, connVars,
                 initVars, serviceVars, delayVars>>

\* The broker delivers the head of the work queue to the next consumer with
\* room; the callback starts the handler.
WorkDispatch ==
  /\ workStats.channel = "open"
  /\ workQueue # <<>>
  /\ workStats.deliveries < MaxWorkDeliveries
  /\ LET i == NextConsumer(workers, workStats.turn, prefetchCount) IN
     /\ i # 0
     /\ workers' = [workers EXCEPT ![i].held = @ \cup {Head(workQueue)},
                                   ![i].received = @ + 1]
     /\ workStats' = [workStats EXCEPT !.deliveries = @ + 1,
                                       !.turn = (i % Len(workers)) + 1]
  /\ workQueue' = Tail(workQueue)
  /\ UNCHANGED <<prefetchCount, workDeclared, pattern, pqueue, pqDeclared,
                 fanoutVars, dlVars, queueVars, connVars, initVars,
                 serviceVars, delayVars>>

\* The handler of one held task ends: the callback of consume acknowledges
\* the task, or requeues it if the handler threw.
WorkComplete ==
  /\ workStats.channel = "open"
  /\ \E i \in 1..Len(workers), appThrew \in BOOLEAN :
       \E m \in workers[i].held :
         LET h == ConsumeWorkHandler(appThrew)
             fate == Fate(ConsumeAcks(TRUE, h.threw, FALSE), FALSE, "plain")
         IN
         /\ workers' = [workers EXCEPT ![i].held = @ \ {m}]
         /\ workQueue' = IF fate = "requeued" THEN <<m>> \o workQueue
                         ELSE workQueue
  /\ UNCHANGED <<prefetchCount, workDeclared, workStats, pattern, pqueue,
                 pqDeclared, fanoutVars, dlVars, queueVars, connVars,
                 initVars, serviceVars, delayVars>>

\* A reconnect gives the service a new channel, without consumers.
WorkChannelReplaced ==
  /\ workStats.channel = "closed"
  /\ workStats' = [workStats EXCEPT !.channel = "open"]
  /\ UNCHANGED <<prefetchCount, workDeclared, workQueue, workers, pattern,
                 pqueue, pqDeclared, fanoutVars, dlVars, queueVars, connVars,
                 initVars, serviceVars, delayVars>>

\* The work queue service on a channel whose prefetch count is the default
\* or configured as 1.
InitWork ==
  /\ qargs = "absent" /\ queue = <<>> /\ dlq = <<>> /\ unacked = <<>>
  /\ consumer = NoConsumer /\ channelOpen = TRUE
  /\ nextId = 1 /\ sends = 0 /\ now = 1 /\ deliveries = 0
  /\ last = NoDelivery
  /\ codec = CodecIdle
  /\ ConnFields /\ broker = "up"
  /\ InitFields
  /\ PatternIdle /\ prefetchCount \in PrefetchChoices
  /\ DelayIdle /\ plugin = FALSE

NextWork ==
  \/ WorkSetup
  \/ WorkSend
  \/ StartMultipleWorkers
  \/ WorkDispatch
  \/ WorkComplete
  \/ WorkChannelReplaced

SpecWork == InitWork /\ [][NextWork]_vars

\* C29: each worker started by startMultipleWorkers holds at most one
\* unacknowledged task at any time, and of two workers neither has received
\* two or more tasks while the other has received none.
C29_PrefetchOne ==
  /\ \A i \in 1..Len(workers) : Cardinality(workers[i].held) <= 1
  /\ Len(workers) = 2 =>
       /\ ~(workers[1].received >= 2 /\ workers[2].received = 0)
       /\ ~(workers[2].received >= 2 /\ workers[1].received = 0)

\* With the prefetch count configured as 1 no worker holds two tasks.
PrefetchOneWhenConfigured ==
  prefetchCount = 1 =>
    \A i \in 1..Len(workers) : Cardinality(workers[i].held) <= 1

-----------------------------------------------------------------------------
(* No loss under consumeWithRetry (SpecRetry).                             *)

\* A copy of the task with this origin is in the protected queue, held by
\* the consumer, or in the dead-letter queue.
TaskPresent(origin) ==
  \/ \E i \in 1..Len(queue) : queue[i].origin = origin
  \/ \E i \in 1..Len(unacked) : unacked[i].origin = origin
  \/ \E i \in 1..Len(dlq) : dlq[i].origin = origin

\* C30: after consumeWithRetry has handled a failure of the handler the
\* task is in the protected queue or in the dead-letter queue, and the
\* original was acknowledged only if sendToQueue returned true for the
\* retry copy.
C30_NeverLost ==
  (last.kind = "retry" /\ last.decoded /\ last.appThrew) =>
    /\ TaskPresent(last.msg.origin)
    /\ last.acks = <<Ack>> => last.sendResult = "true"

\* After a failure under consumeWithRetry the task is still at the broker.
RetryTaskPresent ==
  (last.kind = "retry" /\ last.decoded /\ last.appThrew) =>
    TaskPresent(last.msg.origin)

-----------------------------------------------------------------------------
(* The delay of a retry copy (SpecRetry).                                  *)

\* The time the envelope of a message was sent and the delay written into
\* it, both in milliseconds.
SentAt(msg) == OrZero(Get(msg.content.obj, "timestamp"))
DelayOf(msg) == OrZero(Get(msg.content.obj, "delay"))

\* C31: a retry copy re-sent by consumeWithRetry with delay D reaches the
\* handler no earlier than D after it was sent, and the delay of the copy
\* re-sent after a failure of a retry copy is larger than that copy's own.
C31_RetryDelayed ==
  (last.kind = "retry" /\ last.decoded /\ last.msg.via = "resend") =>
    /\ last.at >= SentAt(last.msg) + DelayOf(last.msg)
    /\ last.sent # <<>> => DelayOf(last.sent[1]) > DelayOf(last.msg)

-----------------------------------------------------------------------------
(* The connection manager after disconnect(), and the connections it       *)
(* holds (SpecConn).                                                       *)

\* C32: disconnect() sets no reconnect timer, and once disconnect() has
\* closed the connection the service does not become ready again (the model
\* calls connect() explicitly only at start-up).
C32_StaysDisconnected ==
  [][/\ lastOp'.op = "disconnect" => Len(timers') <= Len(timers)
     /\ (lastOp.op = "disconnect" /\ connection = "null")
          => ~IsConnectionReady']_vars

\* The connections to the broker that the service has opened and that are
\* still open: the one its field refers to and the ones it has dropped.
OpenConnections == (IF connection = "open" THEN 1 ELSE 0) + leaked

\* C33: at most one connection opened by the service is open at any time.
C33_OneConnection == OpenConnections <= 1

\* C34: while isConnectionReady() is true getChannel() returns an open
\* channel, and after the channel's 'error' or 'close' event the service is
\* not ready and getChannel() does not return that channel.
C34_ReadyMeansOpenChannel ==
  /\ IsConnectionReady => GetChannel = "open"
  /\ lastOp.op = "channelError" =>
       (~IsConnectionReady /\ GetChannel = NotReady)

-----------------------------------------------------------------------------
(* BusinessConsumer: startAllConsumers / stopAllConsumers over a channel   *)
(* that is lost with its connection and replaced by connect().  A consumer *)
(* belongs to the channel it was registered on and ends with it; the       *)
(* broker answers the consume requests of one channel in order.            *)

\* The queues startAllConsumers() subscribes to, in the order of its
\* Promise.all.
BusinessQueues ==
  <<"email-tasks", "sms-tasks", "image-processing", "events.user",
    "events.order", "logs.error", "notifications.web", "urgent-tasks">>

AllBusinessQueues == {BusinessQueues[i] : i \in DOMAIN BusinessQueues}

\* startAllConsumers(): the check of the flag and, up to the first await,
\* the eight start functions; consume() throws from getChannel() while the
\* service is not connected.
StartAllConsumers(running, ch) ==
  IF running
  THEN [isRunning |-> running, starting |-> {}, skipped |-> TRUE,
        raised |-> FALSE]
  ELSE [isRunning |-> TRUE,
        starting |-> IF ch = "open" THEN AllBusinessQueues ELSE {},
        skipped |-> FALSE, raised |-> ch # "open"]

\* What an action of the business consumers leaves alone.
notBusinessVars ==
  <<queueVars, connVars, initVars, pattern, pqueue, pqDeclared, fanoutVars,
    dlVars, workVars, channelConsumers, topicVars, delayVars>>

\* startAllConsumers() is called by the start-up timer or through the API.
BizStartAllConsumers ==
  LET r == StartAllConsumers(isRunning, bizChannel) IN
  /\ starting = {}
  /\ isRunning' = r.isRunning
  /\ starting' = r.starting
  /\ bizLast' = [op |-> "startAll", skipped |-> r.skipped,
                 raised |-> r.raised]
  /\ UNCHANGED <<bizChannel, subscribed, orphaned, notBusinessVars>>

\* The broker answers the next pending consume request: the queue has a
\* consumer on the channel.
BizConsumeOk ==
  \E i \in DOMAIN BusinessQueues :
    /\ BusinessQueues[i] \in starting
    /\ \A j \in 1..(i - 1) : BusinessQueues[j] \notin starting
    /\ bizChannel = "open"
    /\ starting' = starting \ {BusinessQueues[i]}
    /\ subscribed' = subscribed \cup {BusinessQueues[i]}
    /\ orphaned' = orphaned \ {BusinessQueues[i]}
    /\ bizLast' = [op |-> "consumeOk", skipped |-> FALSE, raised |-> FALSE]
    /\ UNCHANGED <<isRunning, bizChannel, notBusinessVars>>

\* stopAllConsumers()
BizStopAllConsumers ==
  /\ isRunning
  /\ isRunning' = FALSE
  /\ bizLast' = [op |-> "stopAll", skipped |-> FALSE, raised |-> FALSE]
  /\ UNCHANGED <<bizChannel, starting, subscribed, orphaned,
                 notBusinessVars>>

\* The connection closes under the service: its channel and the consumers
\* on it are gone, and the pending consume requests fail.
BizConnectionLost ==
  /\ bizChannel = "open"
  /\ bizChannel' = "lost"
  /\ orphaned' = orphaned \cup subscribed
  /\ subscribed' = {}
  /\ starting' = {}
  /\ bizLast' = [op |-> "lost", skipped |-> FALSE, raised |-> starting # {}]
  /\ UNCHANGED <<isRunning, notBusinessVars>>

\* A reconnect timer's connect() succeeds: the service holds a new channel.
BizReconnected ==
  /\ bizChannel = "lost"
  /\ bizChannel' = "open"
  /\ bizLast' = [op |-> "reconnected", skipped |-> FALSE, raised |-> FALSE]
  /\ UNCHANGED <<isRunning, starting, subscribed, orphaned,
                 notBusinessVars>>

NextBusiness ==
  \/ BizStartAllConsumers
  \/ BizConsumeOk
  \/ BizStopAllConsumers
  \/ BizConnectionLost
  \/ BizReconnected

SpecBusiness == Init /\ [][NextBusiness]_vars

\* C35: once the service is connected again after a loss, a call of
\* startAllConsumers() made while a queue that had a consumer before the
\* loss has none is not skipped as already running.
C35_ConsumersRestored ==
  (bizLast.op = "startAll" /\ bizChannel = "open" /\ orphaned # {})
    => ~bizLast.skipped

-----------------------------------------------------------------------------
(* Start-up: the connection service connects and reconnects while the      *)
(* initialisation service's 3 s timer runs initializeQueues() and then     *)
(* startAllConsumers().  The hooks run in the order of the providers, so   *)
(* the first connect() has ended when the timer fires.                     *)

\* The run of a call of initializeQueues() made while getChannel() throws:
\* the first assertExchange fails before any broker call.
UnreadyRun(caller, skip) ==
  IF skip THEN NewRun(caller, skip)
  ELSE [NewRun(caller, skip) EXCEPT !.state = "failed",
                                    !.error = "notReady"]

\* The start-up timer fires: initializeQueues(), then startAllConsumers()
\* unless initializeQueues() threw; nothing catches what the callback
\* throws, and nothing calls it again.
StartupTimerFires ==
  /\ started
  /\ startupTimer = "pending"
  /\ startupTimer' = "fired"
  /\ IF GetChannel = NotReady
     THEN /\ runs' = Append(runs, UnreadyRun("startup", initialized))
          /\ consumersStarted' = (consumersStarted \/ initialized)
          /\ UNCHANGED <<initialized, exchanges, queues, bindings,
                         initChannel>>
     ELSE InitializeQueues("startup")
  /\ UNCHANGED notInitVars

InitStartup ==
  /\ InitFields
  /\ ConnFields /\ broker \in BrokerStates
  /\ qargs = "absent" /\ queue = <<>> /\ dlq = <<>> /\ unacked = <<>>
  /\ consumer = NoConsumer /\ channelOpen = TRUE
  /\ nextId = 1 /\ sends = 0 /\ now = 1 /\ deliveries = 0
  /\ last = NoDelivery
  /\ codec = CodecIdle
  /\ PatternFields
  /\ DelayIdle /\ plugin = FALSE

NextStartup ==
  \/ OnModuleInit
  \/ ReconnectTimer
  \/ BrokerRecovers
  \/ InitOnModuleInit
  \/ StartupTimerFires
  \/ Declare

\* The event loop runs both hooks, every timer that is due and every
\* continuation of initializeQueues().
SpecStartup ==
  /\ InitStartup
  /\ [][NextStartup]_vars
  /\ WF_vars(OnModuleInit)
  /\ WF_vars(ReconnectTimer)
  /\ WF_vars(InitOnModuleInit)
  /\ WF_vars(StartupTimerFires)
  /\ WF_vars(Declare)

\* C36: once the service is connected the topology becomes initialized,
\* and the business consumers are started only when it is.
C36_StartupLive ==
  /\ IsConnectionReady ~> initialized
  /\ [](consumersStarted => initialized)

-----------------------------------------------------------------------------
(* The prefetch of the consumers on the shared channel.  channel.prefetch  *)
(* sets the channel's per-consumer limit: the broker applies the value in  *)
(* force when a consumer is registered to that consumer, and keeps the     *)
(* limit of the consumers registered before.                               *)

MaxChannelConsumers == 3

ConsumedQueues == {"email-tasks", "sms-tasks", "urgent-tasks"}

\* options.prefetch of a call; 0 stands for an absent option.
PrefetchOptionChoices == {0, 1, 5}

\* The prefetch in force on the channel after `if (options.prefetch) await
\* channel.prefetch(options.prefetch)`.
PrefetchAfter(current, asked) == IF asked # 0 THEN asked ELSE current

\* The consumer that channel.consume() registers.
Registered(q, via, asked, inForce) ==
  [queue |-> q, via |-> via, asked |-> asked, prefetch |-> inForce]

\* What an action on the shared channel's consumers leaves alone.
notPrefetchVars ==
  <<queueVars, connVars, initVars, pattern, pqueue, pqDeclared, fanoutVars,
    dlVars, workDeclared, workQueue, workers, workStats, businessVars,
    topicVars, delayVars>>

\* consumeWithManualAck(queue, handler, {prefetch})
PrefetchConsumeWithManualAck ==
  \E q \in ConsumedQueues, asked \in PrefetchOptionChoices :
    /\ Len(channelConsumers) < MaxChannelConsumers
    /\ prefetchCount' = PrefetchAfter(prefetchCount, asked)
    /\ channelConsumers' =
         Append(channelConsumers,
                Registered(q, "consumeWithManualAck", asked, prefetchCount'))
    /\ UNCHANGED notPrefetchVars

\* RabbitMQEasyService.consumeQueue(queue, handler, {prefetch})
PrefetchConsumeQueue ==
  \E q \in ConsumedQueues, asked \in PrefetchOptionChoices :
    /\ Len(channelConsumers) < MaxChannelConsumers
    /\ prefetchCount' = PrefetchAfter(prefetchCount, asked)
    /\ channelConsumers' =
         Append(channelConsumers,
                Registered(q, "consumeQueue", asked, prefetchCount'))
    /\ UNCHANGED notPrefetchVars

\* consume(queue, handler): no prefetch option
PrefetchConsume ==
  \E q \in ConsumedQueues :
    /\ Len(channelConsumers) < MaxChannelConsumers
    /\ channelConsumers' =
         Append(channelConsumers,
                Registered(q, "consume", 0, prefetchCount))
    /\ UNCHANGED <<prefetchCount, notPrefetchVars>>

\* connect() after a loss: a new channel with the configured prefetch and
\* without consumers.
PrefetchReconnected ==
  /\ channelConsumers # <<>>
  /\ channelConsumers' = <<>>
  /\ prefetchCount' = DefaultPrefetchCount
  /\ UNCHANGED notPrefetchVars

NextPrefetch ==
  \/ PrefetchConsumeWithManualAck
  \/ PrefetchConsumeQueue
  \/ PrefetchConsume
  \/ PrefetchReconnected

SpecPrefetch == Init /\ [][NextPrefetch]_vars

\* C37: a consumer registered without an explicit prefetch gets the
\* connection's configured prefetch, whatever prefetch the consumers
\* registered before it on the channel asked for.
C37_PrefetchIsolated ==
  \A i \in 1..Len(channelConsumers) :
    channelConsumers[i].asked = 0 =>
      channelConsumers[i].prefetch = DefaultPrefetchCount

-----------------------------------------------------------------------------
(* The exchange of sendDelayMessage (SpecDelay).                           *)

\* C38: once setupDelayQueue has bound the queue, with whatever options, a
\* sendDelayMessage for the queue made on an open channel publishes to an
\* exchange the set-up bound, and the broker accepts the publish.
C38_SameExchange ==
  [][(/\ delayCall'.n # delayCall.n
      /\ delayCall'.op = "sendDelayMessage" /\ delayCall'.ready
      /\ dbroker.bindings # {}) =>
       /\ \E g \in dbroker.bindings :
            g.exchange = delayCall'.pubs[1].exchange
       /\ dbroker'.channel = "open"]_vars

-----------------------------------------------------------------------------
(* TopicQueueService: setupLogTopicQueues / publishLog.  A routing key and *)
(* a binding pattern are sequences of words; the broker routes a message   *)
(* to every queue with a binding whose pattern matches the key, `*`        *)
(* standing for exactly one word and `#` for zero or more words.           *)

MaxTopicCalls == 3

topicExchangePrefix == "topic.exchange"

\* `${topicExchangePrefix}.${exchangeName}`
TopicExchangeName(exchangeName) == <<topicExchangePrefix, ".", exchangeName>>

RECURSIVE TopicMatches(_, _)
\* The broker's wildcard rule for the pattern of a binding.
TopicMatches(routingPattern, key) ==
  IF routingPattern = <<>> THEN key = <<>>
  ELSE IF Head(routingPattern) = "#"
  THEN \/ TopicMatches(Tail(routingPattern), key)
       \/ key # <<>> /\ TopicMatches(routingPattern, Tail(key))
  ELSE /\ key # <<>>
       /\ Head(routingPattern) \in {"*", Head(key)}
       /\ TopicMatches(Tail(routingPattern), Tail(key))

\* The bindings setupLogTopicQueues makes, in order: queue and pattern.
LogTopicBindings ==
  << <<"logs.error", <<"*", "error", "*">> >>,
     <<"logs.warning", <<"*", "warning", "*">> >>,
     <<"logs.warning", <<"*", "error", "*">> >>,
     <<"logs.app.user-service", <<"app", "user-service", "*">> >>,
     <<"logs.all", <<"#">> >> >>

\* The routing key of publishLog(exchange, level, service, message):
\* `app.${service}.${level}`, service being one word.
LogRoutingKey(level, service) == <<"app", service, level>>

LogLevels == {"info", "warning", "error"}

\* Service names of one word.
LogServices == {"user-service", "order", "error", "warning"}

\* The queues the broker routes a key to.
TopicRoutedTo(b, exchange, key) ==
  {g.queue : g \in {x \in b.bindings :
                      x.exchange = exchange /\ TopicMatches(x.pattern, key)}}

\* What an action of the topic service leaves alone.
notTopicVars ==
  <<queueVars, connVars, initVars, pattern, pqueue, pqDeclared, fanoutVars,
    dlVars, workVars, businessVars, channelConsumers, delayVars>>

\* setupLogTopicQueues("logs"): the exchange, then each queue and its
\* bindings; every call throws on a closed channel.
TopicSetupLogs ==
  LET ready == topicBroker.channel = "open"
      ex == TopicExchangeName("logs") IN
  /\ topicCall.n < MaxTopicCalls
  /\ topicBroker' =
       IF ready
       THEN [topicBroker EXCEPT
               !.exchanges = @ \cup {ex},
               !.bindings = @ \cup
                 {[queue |-> LogTopicBindings[i][1], exchange |-> ex,
                   pattern |-> LogTopicBindings[i][2]] :
                    i \in DOMAIN LogTopicBindings}]
       ELSE topicBroker
  /\ topicCall' = [NoTopicCall EXCEPT !.n = topicCall.n + 1,
                                      !.op = "setupLogTopicQueues",
                                      !.ready = ready, !.threw = ~ready]
  /\ UNCHANGED <<topicContents, notTopicVars>>

\* publishLog("logs", level, service, message); the broker closes the
\* channel on a publish to an exchange it does not have.
TopicPublishLog ==
  \E level \in LogLevels, service \in LogServices :
    LET ready == topicBroker.channel = "open"
        ex == TopicExchangeName("logs")
        key == LogRoutingKey(level, service)
        known == ex \in topicBroker.exchanges
        to == IF ready /\ known THEN TopicRoutedTo(topicBroker, ex, key)
              ELSE {} IN
    /\ topicCall.n < MaxTopicCalls
    /\ topicBroker' = IF ready /\ ~known
                      THEN [topicBroker EXCEPT !.channel = "closed"]
                      ELSE topicBroker
    /\ topicContents' = topicContents \cup {<<q, key>> : q \in to}
    /\ topicCall' = [n |-> topicCall.n + 1, op |-> "publishLog",
                     ready |-> ready /\ known, threw |-> ~ready,
                     level |-> level, service |-> service, key |-> key,
                     queues |-> to]
    /\ UNCHANGED notTopicVars

\* A reconnect of the connection service gives the service a new channel.
TopicChannelReplaced ==
  /\ topicBroker.channel = "closed"
  /\ topicBroker' = [topicBroker EXCEPT !.channel = "open"]
  /\ UNCHANGED <<topicContents, topicCall, notTopicVars>>

NextTopic ==
  \/ TopicSetupLogs
  \/ TopicPublishLog
  \/ TopicChannelReplaced

SpecTopic == Init /\ [][NextTopic]_vars

\* C39: after setupLogTopicQueues, a log of level error published by
\* publishLog for a one-word service name reaches logs.error and logs.all,
\* and a log of level warning reaches logs.warning and not logs.error.
C39_LogRouting ==
  (topicCall.op = "publishLog" /\ topicCall.ready) =>
    /\ topicCall.level = "error" =>
         {"logs.error", "logs.all"} \subseteq topicCall.queues
    /\ topicCall.level = "warning" =>
         /\ "logs.warning" \in topicCall.queues
         /\ "logs.error" \notin topicCall.queues

-----------------------------------------------------------------------------
(* ManualAckDemoService: the consumer of startManualAckConsumer on the     *)
(* protected queue.  A message requeued by a nack comes back as it was     *)
(* sent: the broker changes neither its content nor its headers.           *)

MAX_RETRIES == 3

\* The handler startManualAckConsumer registers: the acknowledgment it
\* issues for a message, processBusinessLogic having thrown or not.
StartManualAckConsumerHandler(message, processThrew) ==
  LET retryCount == OrZero(Get(message, "retryCount")) IN
  IF ~processThrew THEN <<Ack>>
  ELSE IF retryCount < MAX_RETRIES THEN <<Nack(TRUE)>>
  ELSE <<Nack(FALSE)>>

\* startManualAckConsumer()
StartManualAckConsumer ==
  /\ channelOpen
  /\ consumer.kind = "none"
  /\ Register([kind |-> "demo", noAck |-> FALSE, maxRetries |-> MAX_RETRIES])
  /\ UNCHANGED <<qargs, dlq, nextId, sends, now, deliveries, last, codec,
                 notQueueVars>>

\* One delivery to the demo consumer: the callback of consumeWithManualAck
\* decodes the message and runs the handler, and the broker settles the
\* delivery.
DemoDeliver ==
  /\ channelOpen
  /\ consumer.kind = "demo"
  /\ queue # <<>>
  /\ deliveries < MaxDeliveries
  /\ LET msg == Head(queue)
         d == Deserialize(msg.content)
         rc == OrZero(Get(d.msg, "retryCount"))
     IN
     \E processThrew \in BOOLEAN :
       /\ (~d.ok => ~processThrew)
       /\ LET calls == IF d.ok
                       THEN StartManualAckConsumerHandler(d.msg, processThrew)
                       ELSE <<>>
              acks == ManualAcks(d.ok, calls, FALSE)
              fate == Fate(acks, FALSE, qargs)
              attempt == IF d.ok THEN msg.attempt + 1 ELSE msg.attempt
              seen == [msg EXCEPT !.attempt = attempt,
                                  !.prevRc = IF d.ok THEN rc ELSE @]
              back == IF fate = "requeued"
                      THEN <<[seen EXCEPT !.via = "requeue"]>> ELSE <<>>
          IN
          /\ last' = [kind |-> "demo", noAck |-> FALSE,
                      maxRetries |-> MAX_RETRIES, decoded |-> d.ok,
                      rc |-> rc, appThrew |-> processThrew, threw |-> FALSE,
                      acks |-> acks, fate |-> fate, msg |-> msg,
                      sent |-> <<>>, at |-> now, sendResult |-> "none"]
          /\ dlq' = IF fate = "deadLettered" THEN Append(dlq, seen) ELSE dlq
          /\ queue' = back \o Tail(queue)
  /\ deliveries' = deliveries + 1
  /\ UNCHANGED <<qargs, unacked, consumer, channelOpen, nextId, sends, now,
                 codec, notQueueVars>>

NextDemo ==
  \/ SetupDeadLetterQueue
  \/ Send
  \/ Tick
  \/ StartManualAckConsumer
  \/ DemoDeliver

SpecDemo == Init /\ [][NextDemo]_vars

\* C40: a message that has been requeued MAX_RETRIES times and fails again
\* is rejected without requeue and dead-lettered.
C40_RetriesBounded ==
  (last.kind = "demo" /\ last.appThrew /\ last.msg.attempt >= MAX_RETRIES)
    => (last.fate = "deadLettered" /\ last.acks = <<Nack(FALSE)>>)

====
